---- MODULE Spec2Model ----
(***************************************************************************)
(* A model of the TFT lobby profiler (internal/riot): the worker fan-out   *)
(* of ProfileAnalyzer.AnalyzeLobbyAggregated and AnalyzePlayer             *)
(* (profiling.go) and the TTL cache with its janitor (cache.go).           *)
(*                                                                         *)
(* The specifications share the variables: SpecLobby runs one call of      *)
(* AnalyzeLobbyAggregated, SpecCache runs concurrent cache clients against *)
(* a clock, SpecSlices runs a caller of SetMatchIDs and GetMatchIDs that   *)
(* writes to its slices, SpecPlayer runs AnalyzePlayer calls of one task   *)
(* and SpecPlayers those of two concurrent tasks, SpecJanitor runs         *)
(* StartJanitor, the stop functions and the janitor goroutines,            *)
(* SpecAnalysis applies the analysis helpers of AnalyzePlayer to bounded   *)
(* inputs, SpecInstances runs two analyzers, each on its own cache.  Spec  *)
(* is their union.                                                         *)
(***************************************************************************)
EXTENDS Integers, Sequences, FiniteSets, TLC

\* ------------------------------------------------------------------ bounds
\* Largest lobby explored (above the concurrency limit of 4, so that the
\* dispatcher has to wait for a slot).
MaxParticipants == 5
\* Largest number of AnalyzePlayer calls of one lobby that fail.
MaxFailures == 2

\* Last instant of the clock (the clock stops there).
MaxTime == 2
\* Largest TTL, in clock units, a kind is ever given.
MaxTTL == 2
\* Largest number of cache operations the clients start.
MaxOps == 3

\* Largest number of slices (backing arrays) allocated.
MaxArrays == 4

\* pa.MinGamesRequired of the analyzer whose AnalyzePlayer is explored: a
\* public field (5 from NewProfileAnalyzer, set by the caller otherwise),
\* kept small here so that a call needs few records.
MinGames == 2
\* Largest number of AnalyzePlayer calls started; how far the longest
\* identifier list exceeds MinGames; most fetches of one call that fail;
\* most records of one call that lack the player.
MaxCalls == 3
MaxExtraGames == 1
MaxFetchErrors == 2
MaxForeign == 1

\* Largest number of StartJanitor calls, and of calls of one stop function.
MaxJanitors == 2
MaxStopCalls == 2

\* Largest number of calls made on the analyzers.
MaxInstanceOps == 2

\* Longest recent form determineClimbingTrend is given; most games
\* analyzePlayStyle and the preference helpers are given; most games
\* analyzePerformance is given (above its cap of 10).
MaxFormLen == 6
MaxHelperGames == 3
MaxPerformanceGames == 11

\* ------------------------------------------------------- program constants
\* profiling.go:225  maxConcurrent := 4
ConcurrencyLimit == 4
\* profiling.go:101  MinGamesRequired: 5
MinGamesRequired == 5
\* profiling.go:275  topN := 3
TopTraits == 3
\* profiling.go:549  len(recentForm) < 5
TrendMinGames == 5
\* profiling.go:452  len(recentForm) > 10
RecentFormCap == 10
\* The significand of a float64 (IEEE-754 binary64) has 53 bits.
MantissaBits == 53

NoValue == "none"

VARIABLES
    \* ---- AnalyzeLobbyAggregated (profiling.go:215-309)
    participants,   \* gameInfo.Participants: sequence of [PUUID, ProfileIconID]
    pcMain,         \* position of the calling goroutine
    idx,            \* index of the next participant the range loop launches
    sem,            \* number of tokens held in the buffered channel sem
    tasks,          \* the goroutines launched so far, in launch order
    results,        \* content of the buffered channel results (FIFO)
    profiles,       \* the local slice profiles of the collection loop
    lobby           \* the returned (*LobbyProfile, error), NoLobby before return

lobbyVars == <<participants, pcMain, idx, sem, tasks, results, profiles, lobby>>

VARIABLES
    \* ---- Cache (cache.go:10-31)
    now,            \* the wall clock read by time.Now()
    ttl,            \* profileTTL, matchTTL, matchIDsTTL, by kind
    store,          \* profiles, matches, matchIDs, by kind: key -> cachedItem
    cpc,            \* position of each client goroutine inside its cache call
    loc,            \* the locals of each client's running call
    ret,            \* what the call that finished last returned and did
    ops             \* number of cache calls started so far

cacheVars == <<now, ttl, store, cpc, loc, ret, ops>>

VARIABLES
    \* ---- janitor (cache.go:24, 215-253)
    janitorStop,    \* c.janitorStop: 0 for nil, else the channel it holds
    closes,         \* per stop channel, how often close() was called on it
    jpc,            \* position of each StartJanitor call and of its goroutine
    jat,            \* the local now of each janitor's running PurgeExpired
    tickC,          \* per janitor, whether ticker.C holds an undelivered tick
    stopCalls       \* per returned stop function, how often it was called

janitorVars == <<janitorStop, closes, jpc, jat, tickC, stopCalls>>

VARIABLES
    \* ---- the []string values of SetMatchIDs / GetMatchIDs (cache.go:139-180)
    heap,           \* backing arrays of the slices: address -> list of match IDs
    owned,          \* addresses of the slices the calling code holds
    written         \* per key, the list and slice SetMatchIDs was last given

sliceVars == <<heap, owned, written>>

VARIABLES
    \* ---- AnalyzePlayer (profiling.go:107-202) and the cache lock c.mu
    ppc,            \* position of each task inside its AnalyzePlayer call
    pl,             \* the locals of each task's call, with what it has done
    calls,          \* number of AnalyzePlayer calls started so far
    mu              \* c.mu: the tasks holding it for reading and for writing

playerVars == <<ppc, pl, calls, mu>>

VARIABLES
    \* ---- the analysis helpers of AnalyzePlayer (profiling.go:322-577)
    call,           \* the helper called and the argument it is given
    out             \* what it returned: {} before it returns, {value} after

analysisVars == <<call, out>>

VARIABLES
    \* ---- analyzers and the caches they own (profiling.go:98-104)
    analyzers,      \* the analyzers constructed: the address of pa.Cache of each
    caches          \* the Cache objects allocated: address -> [ttl, store]

instanceVars == <<analyzers, caches>>

vars == <<lobbyVars, cacheVars, janitorVars, sliceVars, playerVars,
          analysisVars, instanceVars>>

\* ======================================================================
\* float64
\* ======================================================================
\* The averages and frequencies are Go float64 values (IEEE-754 binary64).
\* A value >= 0 is kept as [e, m]: m is the 53-bit significand, an
\* integer with 2^52 <= m < 2^53, and the value is m * 2^(e - 52); zero
\* has m = 0 and e = 0.  Every operation rounds its exact result to the nearest
\* value, ties to even.  The integers of the arithmetic are wider than a
\* machine word here, so they are kept in limbs.  All values of the
\* model are far from the subnormal and the overflow range.

\* A natural number: the sequence of its digits to the base Base, the
\* least significant first, without leading zero digits (0 is <<>>).
LimbBits == 15
Base == 2^LimbBits
Big(p) == IF p = 0 THEN <<>> ELSE <<p>>

RECURSIVE Trim(_)
\* N without its leading zero digits.
Trim(N) ==
    IF N = <<>> THEN <<>>
    ELSE IF N[Len(N)] = 0 THEN Trim(SubSeq(N, 1, Len(N) - 1))
    ELSE N

RECURSIVE MulLimbs(_, _, _)
\* N * k + c, for 0 < k <= Base.
MulLimbs(N, k, c) ==
    IF N = <<>> THEN Big(c)
    ELSE LET t == Head(N) * k + c
         IN <<t % Base>> \o MulLimbs(Tail(N), k, t \div Base)
BigMul(N, k) == MulLimbs(N, k, 0)

RECURSIVE DivLimbs(_, _)
\* Quotient (untrimmed) and remainder of N divided by k, for 0 < k <= Base.
DivLimbs(N, k) ==
    IF N = <<>> THEN [q |-> <<>>, r |-> 0]
    ELSE LET hi == DivLimbs(Tail(N), k)
             t  == hi.r * Base + Head(N)
         IN [q |-> <<t \div k>> \o hi.q, r |-> t % k]
BigDiv(N, k) == Trim(DivLimbs(N, k).q)
BigMod(N, k) == DivLimbs(N, k).r

Limb(N) == IF N = <<>> THEN 0 ELSE Head(N)
Rest(N) == IF N = <<>> THEN <<>> ELSE Tail(N)

RECURSIVE AddLimbs(_, _, _)
\* A + B + c.
AddLimbs(A, B, c) ==
    IF A = <<>> /\ B = <<>> THEN Big(c)
    ELSE LET t == Limb(A) + Limb(B) + c
         IN <<t % Base>> \o AddLimbs(Rest(A), Rest(B), t \div Base)
BigAdd(A, B) == AddLimbs(A, B, 0)

RECURSIVE SubLimbs(_, _, _)
\* A - B - c (untrimmed), for A >= B + c.
SubLimbs(A, B, c) ==
    IF A = <<>> THEN <<>>
    ELSE LET t == Head(A) - Limb(B) - c
         IN <<(t + Base) % Base>>
            \o SubLimbs(Tail(A), Rest(B), IF t < 0 THEN 1 ELSE 0)
BigSub(A, B) == Trim(SubLimbs(A, B, 0))

BigLess(A, B) ==
    \/ Len(A) < Len(B)
    \/ /\ Len(A) = Len(B)
       /\ \E i \in 1..Len(A) :
            A[i] < B[i] /\ \A j \in (i + 1)..Len(A) : A[j] = B[j]

RECURSIVE Bits(_)
\* The number of binary digits of the digit d.
Bits(d) == IF d = 0 THEN 0 ELSE 1 + Bits(d \div 2)

\* The number of binary digits of N.
BitLen(N) ==
    IF N = <<>> THEN 0 ELSE LimbBits * (Len(N) - 1) + Bits(N[Len(N)])

\* N + 1.
Successor(N) ==
    IF N # <<>> /\ Head(N) + 1 < Base THEN <<Head(N) + 1>> \o Tail(N)
    ELSE BigAdd(N, Big(1))

RECURSIVE ShiftLeft(_, _)
\* N * 2^d.
ShiftLeft(N, d) ==
    IF d = 0 THEN N
    ELSE IF d > LimbBits THEN ShiftLeft(BigMul(N, Base), d - LimbBits)
    ELSE BigMul(N, 2^d)

F64Zero == [e |-> 0, m |-> Big(0)]

RECURSIVE F64Round(_, _, _)
\* Round to nearest, ties to even: the exact result is N * 2^x, plus a
\* non-zero rest smaller than 2^x if sticky.  (A sticky rest only occurs
\* with an N of more than 54 bits.)  The digits cut off are the rest of
\* the lowest digit, the cut being shorter than a digit.
F64Round(N, x, sticky) ==
    LET len == BitLen(N)
        r   == len - MantissaBits
    IN IF len = 0 THEN F64Zero
       ELSE IF r <= 0 THEN [e |-> x + len - 1, m |-> ShiftLeft(N, 0 - r)]
       ELSE IF r >= LimbBits
       THEN LET step == IF r - LimbBits + 1 < LimbBits
                        THEN r - LimbBits + 1 ELSE LimbBits - 1
            IN F64Round(BigDiv(N, 2^step), x + step,
                        sticky \/ Limb(N) % 2^step # 0)
       ELSE LET q    == BigDiv(N, 2^r)
                rem  == Limb(N) % 2^r
                half == 2^(r - 1)
                up   == rem > half
                        \/ (rem = half /\ (sticky \/ Limb(q) % 2 = 1))
                q1   == IF up THEN Successor(q) ELSE q
            IN IF up /\ BitLen(q1) > MantissaBits
               THEN [e |-> x + len, m |-> BigDiv(q1, 2)]
               ELSE [e |-> x + len - 1, m |-> q1]

\* Binary digits computed beyond the significand before a quotient is
\* rounded: enough for a divisor below Base.
ExtraBits == LimbBits + 2

\* float64(p) / float64(q) for integers 0 <= p < Base and 0 < q < Base
\* (both convert exactly).
F64Quotient(p, q) ==
    LET N == ShiftLeft(Big(p), MantissaBits + ExtraBits)
    IN F64Round(BigDiv(N, q), 0 - (MantissaBits + ExtraBits), BigMod(N, q) # 0)

\* The quotients of the small operands, computed once: Quotients[q][p + 1]
\* is F64Quotient(p, q) for p, q up to Tabulated.
Tabulated == MaxParticipants + 1
RECURSIVE QuotientRow(_, _)
QuotientRow(p, q) ==
    IF p > Tabulated THEN <<>>
    ELSE <<F64Quotient(p, q)>> \o QuotientRow(p + 1, q)
RECURSIVE QuotientRows(_)
QuotientRows(q) ==
    IF q > Tabulated THEN <<>>
    ELSE <<QuotientRow(0, q)>> \o QuotientRows(q + 1)
Quotients == QuotientRows(1)

F64FromRatio(p, q) ==
    IF p <= Tabulated /\ q <= Tabulated THEN Quotients[q][p + 1]
    ELSE F64Quotient(p, q)

\* float64(p).
F64FromInt(p) == F64FromRatio(p, 1)

\* a / float64(k) for an integer 0 < k < Base: two binary digits more than
\* k has keep the quotient longer than the significand.
F64DivInt(a, k) ==
    IF a.m = <<>> THEN F64Zero
    ELSE LET extra == Bits(k) + 2
             d     == DivLimbs(ShiftLeft(a.m, extra), k)
         IN F64Round(Trim(d.q), a.e - (MantissaBits - 1) - extra, d.r # 0)

\* The exponent the significands of a and b are aligned to.
LowExp(a, b) ==
    IF a.m = <<>> THEN b.e
    ELSE IF b.m = <<>> THEN a.e
    ELSE IF a.e < b.e THEN a.e ELSE b.e
Aligned(a, lo) == IF a.m = <<>> THEN a.m ELSE ShiftLeft(a.m, a.e - lo)

\* a + b.
F64Add(a, b) ==
    IF a.m = <<>> THEN b
    ELSE IF b.m = <<>> THEN a
    ELSE LET lo == LowExp(a, b)
         IN F64Round(BigAdd(Aligned(a, lo), Aligned(b, lo)),
                     lo - (MantissaBits - 1), FALSE)

\* a - b for a >= b.
F64Sub(a, b) ==
    LET lo == LowExp(a, b)
    IN F64Round(BigSub(Aligned(a, lo), Aligned(b, lo)),
                lo - (MantissaBits - 1), FALSE)

\* a < b.
F64Less(a, b) ==
    IF b.m = <<>> THEN FALSE
    ELSE IF a.m = <<>> THEN TRUE
    ELSE a.e < b.e \/ (a.e = b.e /\ BigLess(a.m, b.m))

\* |a - b|.
F64AbsDiff(a, b) == IF F64Less(a, b) THEN F64Sub(b, a) ELSE F64Sub(a, b)

RECURSIVE BigProduct(_, _)
\* A * B (untrimmed).
BigProduct(A, B) ==
    IF B = <<>> THEN <<>>
    ELSE LET rest == <<0>> \o BigProduct(A, Tail(B))
         IN IF Head(B) = 0 THEN rest ELSE BigAdd(BigMul(A, Head(B)), rest)

\* a * b.
F64Mul(a, b) ==
    IF a.m = <<>> \/ b.m = <<>> THEN F64Zero
    ELSE F64Round(Trim(BigProduct(a.m, b.m)),
                  a.e + b.e - 2 * (MantissaBits - 1), FALSE)

\* a * b + c with a single rounding (a fused multiply-add).
F64FMA(a, b, c) ==
    IF c.m = <<>> THEN F64Mul(a, b)
    ELSE IF a.m = <<>> \/ b.m = <<>> THEN c
    ELSE LET P  == Trim(BigProduct(a.m, b.m))
             xp == a.e + b.e - 2 * (MantissaBits - 1)
             xc == c.e - (MantissaBits - 1)
             lo == IF xp < xc THEN xp ELSE xc
         IN F64Round(BigAdd(ShiftLeft(P, xp - lo), ShiftLeft(c.m, xc - lo)),
                     lo, FALSE)

RECURSIVE LongDivision(_, _, _, _)
\* k further binary digits of a quotient with the divisor D: q holds the
\* digits so far and r < D is the rest.
LongDivision(q, r, D, k) ==
    IF k = 0 THEN [q |-> q, r |-> r]
    ELSE LET r2 == BigMul(r, 2)
         IN IF BigLess(r2, D)
            THEN LongDivision(MulLimbs(q, 2, 0), r2, D, k - 1)
            ELSE LongDivision(MulLimbs(q, 2, 1), BigSub(r2, D), D, k - 1)

RECURSIVE DivideOn(_, _, _)
\* c further groups of five binary digits of the quotient d: once the rest
\* is 0 the digits to come are 0.
DivideOn(d, D, c) ==
    IF c = 0 THEN d
    ELSE IF d.r = <<>> THEN [q |-> ShiftLeft(d.q, 5 * c), r |-> d.r]
    ELSE DivideOn(LongDivision(d.q, d.r, D, 5), D, c - 1)

\* a / b for a, b > 0: the quotient of the significands lies between 1/2
\* and 2, so two binary digits beyond the significand and the rest decide
\* the rounding.  (MantissaBits + 2 is 11 groups of five.)
F64Div(a, b) ==
    IF b.m = <<>> \/ a.m = <<>> THEN F64Zero ELSE
    LET first == IF BigLess(a.m, b.m) THEN [q |-> Big(0), r |-> a.m]
                 ELSE [q |-> Big(1), r |-> BigSub(a.m, b.m)]
        d     == DivideOn(first, b.m, (MantissaBits + 2) \div 5)
    IN F64Round(Trim(d.q), a.e - b.e - (MantissaBits + 2), d.r # <<>>)

\* ======================================================================
\* The analysis helpers of AnalyzePlayer
\* ======================================================================
\* playerData is a sequence of ParticipantDto, one per used game, in the
\* order of the match identifier list.  Of a ParticipantDto the helpers
\* below read Placement, Traits (Name, TierCurrent) and Units
\* (CharacterID, Items).

\* riot_test.go:126 ParticipantDto.
ParticipantDto(placement, traits, units) ==
    [Placement |-> placement, Traits |-> traits, Units |-> units]

RECURSIVE TotalPlacement(_)
\* profiling.go:328-331: totalPlacement after the loop.
TotalPlacement(playerData) ==
    IF playerData = <<>> THEN 0
    ELSE Head(playerData).Placement + TotalPlacement(Tail(playerData))

\* Mutant of IsTopFour: the fourth place is not counted.
IsTopFour_Strict(game) == game.Placement < 4

\* profiling.go:332: game.Placement <= 4.
IsTopFour(game) == game.Placement <= 4

RECURSIVE TopFours(_)
\* profiling.go:329-335: topFours after the loop.
TopFours(playerData) ==
    IF playerData = <<>> THEN 0
    ELSE (IF IsTopFour(Head(playerData)) THEN 1 ELSE 0)
         + TopFours(Tail(playerData))

\* profiling.go:322-346 analyzePlayStyle: the two averages.  (EconomyStyle
\* and LevelingPattern are tags computed from GoldLeft and Level.)
analyzePlayStyle(playerData) ==
    IF Len(playerData) = 0
    THEN [AveragePlacement |-> F64Zero, TopFourRate |-> F64Zero]
    ELSE [AveragePlacement |->
              F64FromRatio(TotalPlacement(playerData), Len(playerData)),
          TopFourRate |->
              F64FromRatio(TopFours(playerData), Len(playerData))]

RECURSIVE Flatten(_)
\* The concatenation of a sequence of sequences.
Flatten(ss) == IF ss = <<>> THEN <<>> ELSE Head(ss) \o Flatten(Tail(ss))

\* The number of places of the sequence s that hold x.
Occurrences(s, x) == Cardinality({i \in DOMAIN s : s[i] = x})

\* The Go map counting the elements of s: map[x]++ for every place.
CountMap(s) ==
    [x \in {s[i] : i \in DOMAIN s} |-> Occurrences(s, x)]

IsActive(trait) == trait.TierCurrent > 0

\* profiling.go:352-358: the trait names counted into traitMap, one per
\* listed trait with TierCurrent > 0.
CountedTraits(playerData) ==
    Flatten([g \in DOMAIN playerData |->
        LET active == SelectSeq(playerData[g].Traits, IsActive)
        IN [i \in DOMAIN active |-> active[i].Name]])

\* profiling.go:361-363: the character IDs counted into unitMap.
CountedUnits(playerData) ==
    Flatten([g \in DOMAIN playerData |->
        [i \in DOMAIN playerData[g].Units |->
            playerData[g].Units[i].CharacterID]])

\* profiling.go:402-408: the item IDs counted into itemMap.
CountedItems(playerData) ==
    Flatten([g \in DOMAIN playerData |->
        Flatten([i \in DOMAIN playerData[g].Units |->
            playerData[g].Units[i].Items])])

\* profiling.go:368-374 TraitFrequency entries: count / len(playerData).
TraitFrequencies(playerData) ==
    LET traitMap == CountMap(CountedTraits(playerData))
    IN {[Name |-> name,
         Frequency |-> F64FromRatio(traitMap[name], Len(playerData))] :
            name \in DOMAIN traitMap}

\* profiling.go:377-383 UnitFrequency entries: count / len(playerData).
UnitFrequencies(playerData) ==
    LET unitMap == CountMap(CountedUnits(playerData))
    IN {[CharacterID |-> id,
         Frequency |-> F64FromRatio(unitMap[id], Len(playerData))] :
            id \in DOMAIN unitMap}

\* profiling.go:410-423 ItemFrequency entries: count / totalItems.
ItemFrequencies(playerData) ==
    LET counted == CountedItems(playerData)
        itemMap == CountMap(counted)
    IN {[ItemID |-> id,
         Frequency |-> F64FromRatio(itemMap[id], Len(counted))] :
            id \in DOMAIN itemMap}

\* The slices sort.Slice may leave when it is given, in the order a range
\* over a Go map produced them, the entries E and the comparison
\* a.Frequency > b.Frequency (profiling.go:368, 386-388; 377, 389-391;
\* 412, 425-427; 292, 298-300): the iteration order of a map is not
\* specified, so entries of equal frequency end in any order.
RECURSIVE SortedByFrequency(_)
SortedByFrequency(E) ==
    IF E = {} THEN {<<>>}
    ELSE UNION {{<<x>> \o s : s \in SortedByFrequency(E \ {x})} :
                   x \in {y \in E : \A z \in E :
                               ~F64Less(y.Frequency, z.Frequency)}}

\* profiling.go:348-397 analyzeCompPreference: the results it can return.
analyzeCompPreference(playerData) ==
    {[FavoriteTraits |-> ft, FavoriteUnits |-> fu] :
        ft \in SortedByFrequency(TraitFrequencies(playerData)),
        fu \in SortedByFrequency(UnitFrequencies(playerData))}

\* profiling.go:399-432 analyzeItemPreference: the results it can return.
analyzeItemPreference(playerData) ==
    {[FavoriteItems |-> fi] :
        fi \in SortedByFrequency(ItemFrequencies(playerData))}

\* profiling.go:571, 573: the constant 0.5.
Half == F64FromRatio(1, 2)

RECURSIVE SumSeq(_)
SumSeq(s) == IF s = <<>> THEN 0 ELSE Head(s) + SumSeq(Tail(s))

\* profiling.go:558-562, 564-568: the mean of a half of the recent form.
\* The sum of the converted placements is exact.
HalfAvg(half) == F64FromRatio(SumSeq(half), Len(half))

\* profiling.go:548-577 determineClimbingTrend.
determineClimbingTrend(recentForm) ==
    IF Len(recentForm) < TrendMinGames THEN "unknown"
    ELSE LET mid       == Len(recentForm) \div 2
             firstAvg  == HalfAvg(SubSeq(recentForm, 1, mid))
             secondAvg == HalfAvg(SubSeq(recentForm, mid + 1, Len(recentForm)))
         IN IF F64Less(secondAvg, F64Sub(firstAvg, Half)) THEN "climbing"
            ELSE IF F64Less(F64Add(firstAvg, Half), secondAvg) THEN "declining"
            ELSE "stable"

\* Mutant of Divisor: the sample variance, over one less.
Divisor_Sample(placements) == Len(placements) - 1

\* profiling.go:540: the sum of squares is divided by len(placements).
Divisor(placements) == Len(placements)

RECURSIVE SquaredDeviations(_, _, _)
\* profiling.go:536-539: variance after the loop over placements.  The
\* square of the deviation does not depend on its sign.  Go lets a build
\* fuse x*y + z into one operation with a single rounding; fused tells
\* which of the two the build does.
SquaredDeviations(placements, mean, fused) ==
    IF placements = <<>> THEN F64Zero
    ELSE LET k        == Len(placements)
             variance == SquaredDeviations(SubSeq(placements, 1, k - 1),
                                           mean, fused)
             d        == F64AbsDiff(F64FromInt(placements[k]), mean)
         IN IF fused THEN F64FMA(d, d, variance)
            ELSE F64Add(variance, F64Mul(d, d))

\* profiling.go:524-546 calculateConsistencyScore as one build computes
\* it.  stdDev/4.0 is exact.
ConsistencyScore(placements, fused) ==
    IF Len(placements) < 2 THEN F64Zero
    ELSE LET mean     == F64FromRatio(SumSeq(placements), Len(placements))
             variance == F64DivInt(SquaredDeviations(placements, mean, fused),
                                   Divisor(placements))
         IN F64Div(F64FromInt(1),
                   F64Add(F64FromInt(1), F64DivInt(variance, 4)))

\* profiling.go:524-546 calculateConsistencyScore: the values the builds
\* return.
calculateConsistencyScore(placements) ==
    {ConsistencyScore(placements, fused) : fused \in BOOLEAN}

\* profiling.go:440-441: the placements in the order of playerData.
Placements(playerData) ==
    [i \in DOMAIN playerData |-> playerData[i].Placement]

\* profiling.go:452-454: recentForm[len(recentForm)-10:] when longer.
LastGames(recentForm) ==
    IF Len(recentForm) > RecentFormCap
    THEN SubSeq(recentForm, Len(recentForm) - RecentFormCap + 1, Len(recentForm))
    ELSE recentForm

\* profiling.go:434-467 analyzePerformance: the recent form, the counts
\* of high and low rolls and the trend.
analyzePerformance(playerData) ==
    LET recentForm == LastGames(Placements(playerData))
    IN [RecentForm    |-> recentForm,
        HighRollGames |-> Cardinality({i \in DOMAIN playerData :
                                          playerData[i].Placement <= 2}),
        LowRollGames  |-> Cardinality({i \in DOMAIN playerData :
                                          playerData[i].Placement >= 7}),
        ClimbingTrend |-> determineClimbingTrend(recentForm)]

\* ======================================================================
\* AnalyzeLobbyAggregated
\* ======================================================================

\* A participant of CurrentGameInfo: the two fields the function reads.
Participant(i) == [PUUID |-> i, ProfileIconID |-> 100 + i]

\* profiling.go:216  n := len(gameInfo.Participants)
n == Len(participants)

\* Mutant of MaxConcurrent: the semaphore is given one slot per participant.
MaxConcurrent_NoLimit(k) == k

\* profiling.go:225-228: the smaller of n and 4.
MaxConcurrent(k) == IF k < ConcurrencyLimit THEN k ELSE ConcurrencyLimit

\* The placements of the games the collaborator holds for the players of
\* the lobby, MinGamesRequired each, and the names of the traits
\* AnalyzePlayer lists as their favorites, the most frequent first.
PlacementTable ==
    << <<4, 2, 6, 3, 1>>, <<1, 1, 1, 1, 2>>, <<1, 1, 1, 2, 1>>,
       <<8, 7, 5, 6, 4>>, <<1, 1, 1, 1, 1>>, <<3, 5, 2, 8, 4>>,
       <<2, 2, 4, 7, 1>> >>
TraitTable ==
    << <<"Assassin", "Challenger", "Ionia", "Sorcerer">>,
       <<"Challenger", "Assassin">>,
       <<"Ionia">>,
       <<>>,
       <<"Sorcerer", "Challenger", "Assassin", "Ionia">>,
       <<"Assassin", "Ionia", "Challenger">>,
       <<"Challenger">> >>
Row(table, puuid) == table[((puuid - 1) % Len(table)) + 1]

\* profiling.go:180-188: the playerData of a player of the lobby.
History(puuid) ==
    LET placements == Row(PlacementTable, puuid)
    IN [g \in DOMAIN placements |-> ParticipantDto(placements[g], <<>>, <<>>)]

\* profiling.go:192, 366-388: the FavoriteTraits of a player of the lobby,
\* in decreasing frequency.
FavoriteTraitsOf(puuid) ==
    LET names == Row(TraitTable, puuid)
    IN [i \in DOMAIN names |->
           [Name |-> names[i],
            Frequency |-> F64FromRatio(MinGamesRequired + 1 - i,
                                       MinGamesRequired)]]

\* profiling.go:191-192: the play style and the composition preference
\* AnalyzePlayer derives for the players of the lobby.
Derived ==
    [i \in 1..Len(PlacementTable) |->
        [PlayStyle |-> analyzePlayStyle(History(i)),
         CompPreference |-> [FavoriteTraits |-> FavoriteTraitsOf(i)]]]

\* profiling.go:173-177: the profile a successful AnalyzePlayer returns: the
\* requested PUUID, AnalyzedGames = len(matches) >= MinGamesRequired; the
\* icon is not set by AnalyzePlayer (zero value).
DerivedProfile(puuid) ==
    [PUUID |-> puuid, ProfileIconID |-> 0, AnalyzedGames |-> MinGamesRequired,
     PlayStyle |-> Row(Derived, puuid).PlayStyle,
     CompPreference |-> Row(Derived, puuid).CompPreference]

\* Mutant of FallbackProfile: the icon is left at its zero value.
FallbackProfile_NoIcon(puuid, icon) ==
    [PUUID |-> puuid, ProfileIconID |-> 0, AnalyzedGames |-> 0,
     PlayStyle |-> [AveragePlacement |-> F64Zero, TopFourRate |-> F64Zero],
     CompPreference |-> [FavoriteTraits |-> <<>>]]

\* profiling.go:243-248: the minimal profile substituted on error; the
\* fields it does not name have their zero values (no play style, no
\* favorite traits).
FallbackProfile(puuid, icon) ==
    [PUUID |-> puuid, ProfileIconID |-> icon, AnalyzedGames |-> 0,
     PlayStyle |-> [AveragePlacement |-> F64Zero, TopFourRate |-> F64Zero],
     CompPreference |-> [FavoriteTraits |-> <<>>]]

\* Mutant of NextIndex: the loop steps over every other participant.
NextIndex_Skip(i) == i + 2

\* profiling.go:233 range loop: the participant handled after participant i.
NextIndex(i) == i + 1

\* The call has not returned: no LobbyProfile and no error yet.
NoLobby == [err |-> NoValue]

InitLobby ==
    /\ \E k \in 0..MaxParticipants : participants = [i \in 1..k |-> Participant(i)]
    /\ pcMain = "start"
    /\ idx = 1
    /\ sem = 0
    /\ tasks = <<>>
    /\ results = <<>>
    /\ profiles = <<>>
    /\ lobby = NoLobby

\* profiling.go:205-211 LobbyProfile, with the error returned beside it.
LobbyProfile(ps, contested, avgPlacement, topFourRate, err) ==
    [Profiles |-> ps, ContestedTraits |-> contested,
     AvgPlacement |-> avgPlacement, TopFourRate |-> topFourRate, err |-> err]

\* Mutant of EmptyLobby: an empty game is reported as an error.
EmptyLobby_Error == LobbyProfile(<<>>, <<>>, F64Zero, F64Zero, "error")

\* profiling.go:218-221: &LobbyProfile{Profiles: []*PlayerProfile{}}, nil:
\* an empty list that is not nil, the other fields zero, and a nil error.
EmptyLobby == LobbyProfile(<<>>, <<>>, F64Zero, F64Zero, "nil")

\* Mutant of HasData: every profile counts.
HasData_Always(p) == TRUE

\* profiling.go:268: p.AnalyzedGames > 0.
HasData(p) == p.AnalyzedGames > 0

RECURSIVE Sums(_)
\* profiling.go:261-272: sumAvgPlacement, sumTopFourRate and playerCount
\* after the loop over profiles, which adds in the order of the list.
Sums(ps) ==
    IF ps = <<>>
    THEN [sumAvgPlacement |-> F64Zero, sumTopFourRate |-> F64Zero,
          playerCount |-> 0]
    ELSE LET before == Sums(SubSeq(ps, 1, Len(ps) - 1))
             p      == ps[Len(ps)]
         IN IF HasData(p)
            THEN [sumAvgPlacement |->
                      F64Add(before.sumAvgPlacement, p.PlayStyle.AveragePlacement),
                  sumTopFourRate |->
                      F64Add(before.sumTopFourRate, p.PlayStyle.TopFourRate),
                  playerCount |-> before.playerCount + 1]
            ELSE before

\* profiling.go:284-289: a lobby average; 0.0 when no profile has data.
LobbyAverage(sum, playerCount) ==
    IF playerCount > 0 THEN F64DivInt(sum, playerCount) ELSE F64Zero

\* Mutant of TopN: all favorite traits of a profile are considered.
TopN_All(p) == Len(p.CompPreference.FavoriteTraits)

\* profiling.go:275-278: topN, 3 or the number of favorite traits if less.
TopN(p) ==
    IF Len(p.CompPreference.FavoriteTraits) < TopTraits
    THEN Len(p.CompPreference.FavoriteTraits) ELSE TopTraits

\* profiling.go:265-281: the names counted into traitCounts, one per
\* profile and trait among its first topN.
CountedTopTraits(ps) ==
    Flatten([i \in DOMAIN ps |->
        [j \in 1..TopN(ps[i]) |-> ps[i].CompPreference.FavoriteTraits[j].Name]])

\* profiling.go:291-297: the entries of contested, count / n.
ContestedFrequencies(ps) ==
    LET traitCounts == CountMap(CountedTopTraits(ps))
    IN {[Name |-> name,
         Frequency |-> F64FromRatio(traitCounts[name], Len(ps))] :
            name \in DOMAIN traitCounts}

\* profiling.go:260-308: the lobby profiles the aggregation of the
\* collected profiles can return.
Aggregated(ps) ==
    LET s == Sums(ps)
    IN {LobbyProfile(ps, contested,
                     LobbyAverage(s.sumAvgPlacement, s.playerCount),
                     LobbyAverage(s.sumTopFourRate, s.playerCount), "nil") :
            contested \in SortedByFrequency(ContestedFrequencies(ps))}

\* profiling.go:216-222: zero participants return an empty lobby at once.
ReturnEmpty ==
    /\ pcMain = "start"
    /\ n = 0
    /\ pcMain' = "done"
    /\ lobby' = EmptyLobby
    /\ UNCHANGED <<participants, idx, sem, tasks, results, profiles>>
    /\ UNCHANGED <<cacheVars, janitorVars, sliceVars, playerVars, analysisVars, instanceVars>>

\* profiling.go:224-230: create sem (capacity maxConcurrent) and results
\* (capacity n).
MakeChannels ==
    /\ pcMain = "start"
    /\ n > 0
    /\ pcMain' = "dispatch"
    /\ UNCHANGED <<participants, idx, sem, tasks, results, profiles, lobby>>
    /\ UNCHANGED <<cacheVars, janitorVars, sliceVars, playerVars, analysisVars, instanceVars>>

\* profiling.go:233-252, one iteration of the launch loop: the send on sem
\* blocks while the channel is full; then the goroutine is started with the
\* participant's puuid and icon.
Dispatch ==
    /\ pcMain = "dispatch"
    /\ idx <= n
    /\ sem < MaxConcurrent(n)
    /\ sem' = sem + 1
    /\ tasks' = Append(tasks, [arg |-> idx,
                               puuid |-> participants[idx].PUUID,
                               icon |-> participants[idx].ProfileIconID,
                               pc |-> "spawned",
                               profile |-> NoValue,
                               err |-> NoValue])
    /\ idx' = NextIndex(idx)
    /\ UNCHANGED <<participants, pcMain, results, profiles, lobby>>
    /\ UNCHANGED <<cacheVars, janitorVars, sliceVars, playerVars, analysisVars, instanceVars>>

\* profiling.go:233: the range loop is over.
DispatchDone ==
    /\ pcMain = "dispatch"
    /\ idx > n
    /\ pcMain' = "collect"
    /\ UNCHANGED <<participants, idx, sem, tasks, results, profiles, lobby>>
    /\ UNCHANGED <<cacheVars, janitorVars, sliceVars, playerVars, analysisVars, instanceVars>>

\* profiling.go:240: the goroutine calls pa.AnalyzePlayer(puuid).
WorkerCall(g) ==
    /\ g \in DOMAIN tasks
    /\ tasks[g].pc = "spawned"
    /\ tasks' = [tasks EXCEPT ![g].pc = "analyzing"]
    /\ UNCHANGED <<participants, pcMain, idx, sem, results, profiles, lobby>>
    /\ UNCHANGED <<cacheVars, janitorVars, sliceVars, playerVars, analysisVars, instanceVars>>

\* profiling.go:107-202 as seen by its caller: AnalyzePlayer returns either
\* (profile, nil) or (nil, error).
AnalyzePlayerResult(puuid, ok) ==
    IF ok THEN [profile |-> DerivedProfile(puuid), err |-> "nil"]
          ELSE [profile |-> NoValue, err |-> "error"]

\* profiling.go:241-249: the profile a worker delivers for what AnalyzePlayer
\* returned.
WorkerProfile(t, r) ==
    IF r.err # "nil" THEN FallbackProfile(t.puuid, t.icon) ELSE r.profile

\* The AnalyzePlayer calls of this lobby that returned an error so far.
Failures == Cardinality({g \in DOMAIN tasks : tasks[g].err = "error"})

\* profiling.go:239-250: AnalyzePlayer returns, the fallback is built on an
\* error, the profile is sent on results and the deferred receive from sem
\* frees the slot.  Neither channel operation can block (results has
\* capacity n, and the goroutine's own token is in sem), so the goroutine
\* runs from the return to its exit in one step.
WorkerReturn(g) ==
    /\ g \in DOMAIN tasks
    /\ tasks[g].pc = "analyzing"
    /\ \E ok \in BOOLEAN :
        /\ ok \/ Failures < MaxFailures
        /\ LET r == AnalyzePlayerResult(tasks[g].puuid, ok) IN
            /\ tasks' = [tasks EXCEPT ![g].pc = "exited",
                                      ![g].profile = r.profile,
                                      ![g].err = r.err]
            /\ results' = Append(results, WorkerProfile(tasks[g], r))
    /\ sem' = sem - 1
    /\ UNCHANGED <<participants, pcMain, idx, profiles, lobby>>
    /\ UNCHANGED <<cacheVars, janitorVars, sliceVars, playerVars, analysisVars, instanceVars>>

\* profiling.go:255-258, one iteration of the collection loop: receive the
\* oldest profile of results and append it.
Collect ==
    /\ pcMain = "collect"
    /\ Len(profiles) < n
    /\ results # <<>>
    /\ profiles' = Append(profiles, Head(results))
    /\ results' = Tail(results)
    /\ UNCHANGED <<participants, pcMain, idx, sem, tasks, lobby>>
    /\ UNCHANGED <<cacheVars, janitorVars, sliceVars, playerVars, analysisVars, instanceVars>>

\* profiling.go:260-308: aggregate and return the lobby with a nil error.
ReturnLobby ==
    /\ pcMain = "collect"
    /\ Len(profiles) = n
    /\ pcMain' = "done"
    /\ lobby' \in Aggregated(profiles)
    /\ UNCHANGED <<participants, idx, sem, tasks, results, profiles>>
    /\ UNCHANGED <<cacheVars, janitorVars, sliceVars, playerVars, analysisVars, instanceVars>>

NextLobby ==
    \/ ReturnEmpty
    \/ MakeChannels
    \/ Dispatch
    \/ DispatchDone
    \/ \E g \in 1..MaxParticipants : WorkerCall(g)
    \/ \E g \in 1..MaxParticipants : WorkerReturn(g)
    \/ Collect
    \/ ReturnLobby

\* Mutant of ResultsCapacity: an unbuffered results channel, on which no
\* send completes while the caller is not receiving.
ResultsCapacity_Unbuffered(k) == 0

\* profiling.go:230: results := make(chan *PlayerProfile, n).
ResultsCapacity(k) == k

\* The goroutine of a worker step by step (profiling.go:238-251), for the
\* questions of blocking: the return of AnalyzePlayer, the send on results
\* and the deferred receive from sem are steps of their own, the two
\* channel operations with the conditions under which Go lets them go on.

\* The players whose analysis fails when the goroutines are followed step
\* by step: the first participant.
FailingPlayers == {Participant(1).PUUID}

\* profiling.go:240-249: AnalyzePlayer returns and the fallback is built on
\* an error.
WorkerAnalyzed(g) ==
    /\ g \in DOMAIN tasks
    /\ tasks[g].pc = "analyzing"
    /\ LET r == AnalyzePlayerResult(tasks[g].puuid,
                                    tasks[g].puuid \notin FailingPlayers)
       IN tasks' = [tasks EXCEPT ![g].pc = "sending",
                                 ![g].profile = r.profile,
                                 ![g].err = r.err]
    /\ UNCHANGED <<participants, pcMain, idx, sem, results, profiles, lobby>>
    /\ UNCHANGED <<cacheVars, janitorVars, sliceVars, playerVars, analysisVars, instanceVars>>

\* profiling.go:250: results <- profile, which waits while the buffer of
\* the channel is full.
WorkerSend(g) ==
    /\ g \in DOMAIN tasks
    /\ tasks[g].pc = "sending"
    /\ Len(results) < ResultsCapacity(n)
    /\ results' = Append(results,
                         WorkerProfile(tasks[g], [profile |-> tasks[g].profile,
                                                  err |-> tasks[g].err]))
    /\ tasks' = [tasks EXCEPT ![g].pc = "releasing"]
    /\ UNCHANGED <<participants, pcMain, idx, sem, profiles, lobby>>
    /\ UNCHANGED <<cacheVars, janitorVars, sliceVars, playerVars, analysisVars, instanceVars>>

\* profiling.go:239: the deferred <-sem, which waits while the channel is
\* empty; then the goroutine is over.
WorkerRelease(g) ==
    /\ g \in DOMAIN tasks
    /\ tasks[g].pc = "releasing"
    /\ sem > 0
    /\ sem' = sem - 1
    /\ tasks' = [tasks EXCEPT ![g].pc = "exited"]
    /\ UNCHANGED <<participants, pcMain, idx, results, profiles, lobby>>
    /\ UNCHANGED <<cacheVars, janitorVars, sliceVars, playerVars, analysisVars, instanceVars>>

\* The steps of the caller up to the end of the collection, and of the
\* goroutines.
StepsBeforeReturn ==
    \/ ReturnEmpty
    \/ MakeChannels
    \/ Dispatch
    \/ DispatchDone
    \/ \E g \in 1..MaxParticipants : WorkerCall(g)
    \/ \E g \in 1..MaxParticipants : WorkerAnalyzed(g)
    \/ \E g \in 1..MaxParticipants : WorkerSend(g)
    \/ \E g \in 1..MaxParticipants : WorkerRelease(g)
    \/ Collect

\* The step ReturnLobby, whatever the lobby it returns.
Returning ==
    /\ pcMain = "collect"
    /\ Len(profiles) = n
    /\ pcMain' = "done"

NextLobbySteps ==
    \/ StepsBeforeReturn
    \/ ReturnLobby

\* ======================================================================
\* Cache
\* ======================================================================

\* The three stores of the cache: c.profiles, c.matches, c.matchIDs.
Kinds == {"profile", "match", "matchIDs"}
\* Entity identifiers: the PUUIDs and match IDs the callers use as keys.
KeysOf(kind) == IF kind = "profile" THEN {"p1", "p2"}
                ELSE IF kind = "match" THEN {"m1"} ELSE {"p1"}
Keys == UNION {KeysOf(kind) : kind \in Kinds}
\* Goroutines calling the cache concurrently: one looks entries up, one
\* stores entries and changes the TTLs, one purges; where the steps of
\* SetTTLs are told apart, a goroutine of its own calls it.
Readers == {"reader"}
Writers == {"writer"}
Sweepers == {"sweeper"}
Tuners == {"tuner"}
Clients == Readers \cup Writers \cup Sweepers \cup Tuners

\* cache.go:28-31 cachedItem: value and expiresAt.  setAt and ttlUsed record
\* the time.Now() and the TTL the storing Set read (history, not program
\* state).
Item(v, exp, at, d) == [value |-> v, expiresAt |-> exp, setAt |-> at, ttlUsed |-> d]

\* Mutant of After: the comparison is the wrong way round.
After_Reversed(t, u) == u > t

\* time.Time.After: t is strictly later than u.
After(t, u) == t > u

\* Mutant of ExpiresAt: every kind is given the profile TTL.
ExpiresAt_ProfileTTL(t, kind) == t + ttl["profile"]

\* cache.go:69-70, 106-107, 143-144: exp := now.Add(c.<kind>TTL).
ExpiresAt(t, kind) == t + ttl[kind]

\* cache.go:192-208: one store after the purge loop run with the instant t.
PurgeStore(m, t) ==
    [k \in {x \in DOMAIN m : ~After(t, m[x].expiresAt)} |-> m[k]]

\* Mutant of Purged: only the profile store is scanned.
Purged_ProfilesOnly(st, t) == [st EXCEPT !["profile"] = PurgeStore(@, t)]

\* cache.go:191-208: all three stores after the purge loops.
Purged(st, t) == [kind \in Kinds |-> PurgeStore(st[kind], t)]

\* Mutant of NewTTL: the argument is stored whatever its sign.
NewTTL_Unchecked(old, arg) == arg

\* cache.go:278-286: one TTL after SetTTLs: an argument <= 0 keeps it.
NewTTL(old, arg) == IF arg > 0 THEN arg ELSE old

\* The arguments SetTTLs is called with: at most one of them positive.
TTLArgs ==
    {a \in (0..MaxTTL) \X (0..MaxTTL) \X (0..MaxTTL) :
        Cardinality({i \in 1..3 : a[i] > 0}) <= 1}

Idle == [op |-> "idle"]

\* cache.go:60-62 NewDefaultCache: profiles 1 h, matches 24 h, match IDs
\* 15 min.  In clock units: the match-ID lists live one unit, the two
\* longer-lived kinds the longest TTL modelled.
DefaultTTL(kind) == IF kind = "matchIDs" THEN 1 ELSE MaxTTL

\* cache.go:38-57 NewCache as called by NewDefaultCache: the default TTLs,
\* empty stores, no janitor.
InitCache ==
    /\ now = 0
    /\ ttl = [kind \in Kinds |-> DefaultTTL(kind)]
    /\ store = [kind \in Kinds |-> <<>>]
    /\ cpc = [c \in Clients |-> "idle"]
    /\ loc = [c \in Clients |-> Idle]
    /\ ret = Idle
    /\ ops = 0

\* Time passes.
Tick ==
    /\ now < MaxTime
    /\ now' = now + 1
    /\ UNCHANGED <<ttl, store, cpc, loc, ret, ops>>
    /\ UNCHANGED <<lobbyVars, janitorVars, sliceVars, playerVars, analysisVars, instanceVars>>

\* cache.go:65-71, 102-107, 139-148: Set reads the clock and the kind's TTL
\* (without the lock) and computes exp.
\* The value a Set call stores: every call is handed a value of its own (a
\* freshly derived profile, a freshly fetched record or list), named by the
\* number of the call.
FreshValue == ops + 1

SetBegin(c, kind, key, v) ==
    /\ cpc[c] = "idle"
    /\ ops < MaxOps
    /\ ops' = ops + 1
    /\ cpc' = [cpc EXCEPT ![c] = "set_write"]
    /\ loc' = [loc EXCEPT ![c] = [op |-> "set", kind |-> kind, key |-> key,
                                  item |-> Item(v, ExpiresAt(now, kind), now, ttl[kind])]]
    /\ ret' = Idle
    /\ UNCHANGED <<now, ttl, store>>
    /\ UNCHANGED <<lobbyVars, janitorVars, sliceVars, playerVars, analysisVars, instanceVars>>

\* Mutant of Put: an entry the key already has is kept.
Put_KeepPrior(m, k, item) ==
    [x \in DOMAIN m \cup {k} |-> IF x \in DOMAIN m THEN m[x] ELSE item]

\* m[k] = item on a Go map.
Put(m, k, item) == [x \in DOMAIN m \cup {k} |-> IF x = k THEN item ELSE m[x]]

\* delete(m, k) on a Go map.
Delete(m, k) == [x \in DOMAIN m \ {k} |-> m[x]]

\* cache.go:72-74, 109-111, 150-152: under the write lock, the entry of the
\* key is replaced.
SetWrite(c) ==
    /\ cpc[c] = "set_write"
    /\ store' = [store EXCEPT ![loc[c].kind] = Put(@, loc[c].key, loc[c].item)]
    /\ cpc' = [cpc EXCEPT ![c] = "idle"]
    /\ ret' = [op |-> "set", kind |-> loc[c].kind, key |-> loc[c].key,
               item |-> loc[c].item,
               replaced |-> {store[loc[c].kind][k] :
                               k \in {loc[c].key} \cap DOMAIN store[loc[c].kind]}]
    /\ loc' = [loc EXCEPT ![c] = Idle]
    /\ UNCHANGED <<now, ttl, ops>>
    /\ UNCHANGED <<lobbyVars, janitorVars, sliceVars, playerVars, analysisVars, instanceVars>>

\* What a Get returns (value, found), with what it did: the entries it
\* looked at (none for an absent key), the instant of its expiry check, the
\* entries its delete removed and the instant of the delete.
GetResult(kind, key, found, v, seen, at, removed, removedAt) ==
    [op |-> "get", kind |-> kind, key |-> key, found |-> found, value |-> v,
     seen |-> seen, at |-> at, removed |-> removed, removedAt |-> removedAt]

\* cache.go:83-88, 120-125, 161-166: under the read lock the entry is
\* copied; an absent key returns (nil, false).
GetRead(c, kind, key) ==
    /\ cpc[c] = "idle"
    /\ ops < MaxOps
    /\ ops' = ops + 1
    /\ IF key \notin DOMAIN store[kind]
       THEN /\ ret' = GetResult(kind, key, FALSE, NoValue, {}, now, {}, now)
            /\ UNCHANGED <<cpc, loc>>
       ELSE /\ cpc' = [cpc EXCEPT ![c] = "get_check"]
            /\ loc' = [loc EXCEPT ![c] = [op |-> "get", kind |-> kind, key |-> key,
                                          item |-> store[kind][key]]]
            /\ ret' = Idle
    /\ UNCHANGED <<now, ttl, store>>
    /\ UNCHANGED <<lobbyVars, janitorVars, sliceVars, playerVars, analysisVars, instanceVars>>

\* cache.go:90, 98, 127, 135, 168, 176-179: without the lock, the copied
\* entry is checked against the clock; an unexpired one is returned.
GetCheck(c) ==
    /\ cpc[c] = "get_check"
    /\ IF After(now, loc[c].item.expiresAt)
       THEN /\ cpc' = [cpc EXCEPT ![c] = "get_delete"]
            /\ loc' = [loc EXCEPT ![c] = [op |-> "get_expired", kind |-> @.kind,
                                          key |-> @.key, item |-> @.item,
                                          at |-> now]]
            /\ UNCHANGED ret
       ELSE /\ cpc' = [cpc EXCEPT ![c] = "idle"]
            /\ ret' = GetResult(loc[c].kind, loc[c].key, TRUE, loc[c].item.value,
                                   {loc[c].item}, now, {}, now)
            /\ loc' = [loc EXCEPT ![c] = Idle]
    /\ UNCHANGED <<now, ttl, store, ops>>
    /\ UNCHANGED <<lobbyVars, janitorVars, sliceVars, playerVars, analysisVars, instanceVars>>

\* cache.go:91-95, 128-132, 169-173: under the write lock the key is
\* deleted, whatever entry it holds by then; (nil, false) is returned.
GetDelete(c) ==
    /\ cpc[c] = "get_delete"
    /\ store' = [store EXCEPT ![loc[c].kind] = Delete(@, loc[c].key)]
    /\ cpc' = [cpc EXCEPT ![c] = "idle"]
    /\ ret' = GetResult(loc[c].kind, loc[c].key, FALSE, NoValue, {loc[c].item},
                        loc[c].at,
                        {store[loc[c].kind][k] :
                            k \in {loc[c].key} \cap DOMAIN store[loc[c].kind]},
                        now)
    /\ loc' = [loc EXCEPT ![c] = Idle]
    /\ UNCHANGED <<now, ttl, ops>>
    /\ UNCHANGED <<lobbyVars, janitorVars, sliceVars, playerVars, analysisVars, instanceVars>>

\* cache.go:184-188: PurgeExpired reads the clock before it takes the lock.
PurgeBegin(c) ==
    /\ cpc[c] = "idle"
    /\ ops < MaxOps
    /\ ops' = ops + 1
    /\ cpc' = [cpc EXCEPT ![c] = "purge_scan"]
    /\ loc' = [loc EXCEPT ![c] = [op |-> "purge", at |-> now]]
    /\ ret' = Idle
    /\ UNCHANGED <<now, ttl, store>>
    /\ UNCHANGED <<lobbyVars, janitorVars, sliceVars, playerVars, analysisVars, instanceVars>>

\* The entries held by the three stores.
Entries(st) == {e \in Kinds \X Keys : e[2] \in DOMAIN st[e[1]]}

\* cache.go:190-209: under the write lock the three stores are scanned.
PurgeScan(c) ==
    /\ cpc[c] = "purge_scan"
    /\ store' = Purged(store, loc[c].at)
    /\ cpc' = [cpc EXCEPT ![c] = "idle"]
    /\ ret' = [op |-> "purge", at |-> loc[c].at,
               removed |-> Cardinality(Entries(store)) - Cardinality(Entries(store')),
               kept |-> Cardinality(Entries(store'))]
    /\ loc' = [loc EXCEPT ![c] = Idle]
    /\ UNCHANGED <<now, ttl, ops>>
    /\ UNCHANGED <<lobbyVars, janitorVars, sliceVars, playerVars, analysisVars, instanceVars>>

\* cache.go:273-288: SetTTLs, under the write lock.
SetTTLs(c, profileTTL, matchTTL, matchIDsTTL) ==
    /\ cpc[c] = "idle"
    /\ ops < MaxOps
    /\ ops' = ops + 1
    /\ ttl' = [ttl EXCEPT !["profile"] = NewTTL(@, profileTTL),
                          !["match"] = NewTTL(@, matchTTL),
                          !["matchIDs"] = NewTTL(@, matchIDsTTL)]
    /\ ret' = [op |-> "setttls", args |-> [kind \in Kinds |->
                    CASE kind = "profile" -> profileTTL
                      [] kind = "match" -> matchTTL
                      [] OTHER -> matchIDsTTL],
               before |-> ttl]
    /\ UNCHANGED <<now, store, cpc, loc>>
    /\ UNCHANGED <<lobbyVars, janitorVars, sliceVars, playerVars, analysisVars, instanceVars>>

NextCache ==
    \/ Tick
    \/ \E c \in Writers, kind \in Kinds : \E key \in KeysOf(kind) :
            SetBegin(c, kind, key, FreshValue)
    \/ \E c \in Writers : SetWrite(c)
    \/ \E c \in Readers, kind \in Kinds : \E key \in KeysOf(kind) :
            GetRead(c, kind, key)
    \/ \E c \in Readers : GetCheck(c)
    \/ \E c \in Readers : GetDelete(c)
    \/ \E c \in Sweepers : PurgeBegin(c)
    \/ \E c \in Sweepers : PurgeScan(c)
    \/ \E c \in Writers, a \in TTLArgs : SetTTLs(c, a[1], a[2], a[3])

\* ----------------------------------------------------------------------
\* Set and SetTTLs with the steps of the lock c.mu told apart
\* ----------------------------------------------------------------------

\* sync.RWMutex: free, held by readers, or held by one writer.
FreeLock == [readers |-> {}, writer |-> {}]
CanRLock(m) == m.writer = {}
CanLock(m) == m.writer = {} /\ m.readers = {}
RLock(m, t) == [m EXCEPT !.readers = @ \cup {t}]
Lock(m, t) == [m EXCEPT !.writer = @ \cup {t}]
Holders(m) == m.readers \cup m.writer

\* Mutant of RUnlock: the read lock is not given back.
RUnlock_Missing(m, t) == m

\* cache.go:85, 122, 163: c.mu.RUnlock().
RUnlock(m, t) == [m EXCEPT !.readers = @ \ {t}]

\* cache.go:74, 94, 111, 131, 152, 172: c.mu.Unlock().
Unlock(m, t) == [m EXCEPT !.writer = @ \ {t}]

\* cache.go:278-286: the order in which SetTTLs tests its arguments and
\* assigns the three fields.
TTLFields == <<"profile", "match", "matchIDs">>

\* cache.go:72-74, 109-111, 150-152: c.mu.Lock(), the entry is written,
\* c.mu.Unlock(); nothing else runs between the three.
SetWriteLocked(c) ==
    /\ CanLock(mu)
    /\ SetWrite(c)

\* cache.go:273-277: SetTTLs(profileTTL, matchTTL, matchIDsTTL) takes the
\* write lock.
SetTTLsLock(c, a) ==
    /\ cpc[c] = "idle"
    /\ ops < MaxOps
    /\ CanLock(mu)
    /\ mu' = Lock(mu, c)
    /\ ops' = ops + 1
    /\ cpc' = [cpc EXCEPT ![c] = "ttl_write"]
    /\ loc' = [loc EXCEPT ![c] = [op |-> "setttls", args |-> a, next |-> 1,
                                  before |-> ttl]]
    /\ ret' = Idle
    /\ UNCHANGED <<now, ttl, store>>
    /\ UNCHANGED <<ppc, pl, calls>>
    /\ UNCHANGED <<lobbyVars, janitorVars, sliceVars, analysisVars, instanceVars>>

\* cache.go:278-286: one of the three if statements: the field is assigned
\* when its argument is positive.
SetTTLsAssign(c) ==
    /\ cpc[c] = "ttl_write"
    /\ loc[c].next <= Len(TTLFields)
    /\ c \in mu.writer
    /\ ttl' = [ttl EXCEPT ![TTLFields[loc[c].next]] =
                               NewTTL(@, loc[c].args[loc[c].next])]
    /\ loc' = [loc EXCEPT ![c].next = @ + 1]
    /\ UNCHANGED <<now, store, cpc, ret, ops>>
    /\ UNCHANGED <<lobbyVars, janitorVars, sliceVars, playerVars, analysisVars, instanceVars>>

\* cache.go:287: c.mu.Unlock(), and SetTTLs returns.
SetTTLsUnlock(c) ==
    /\ cpc[c] = "ttl_write"
    /\ loc[c].next > Len(TTLFields)
    /\ c \in mu.writer
    /\ mu' = Unlock(mu, c)
    /\ cpc' = [cpc EXCEPT ![c] = "idle"]
    /\ ret' = [op |-> "setttls",
               args |-> [kind \in Kinds |->
                           loc[c].args[CHOOSE i \in DOMAIN TTLFields :
                                           TTLFields[i] = kind]],
               before |-> loc[c].before]
    /\ loc' = [loc EXCEPT ![c] = Idle]
    /\ UNCHANGED <<now, ttl, store, ops>>
    /\ UNCHANGED <<ppc, pl, calls>>
    /\ UNCHANGED <<lobbyVars, janitorVars, sliceVars, analysisVars, instanceVars>>

NextTTLs ==
    \/ Tick
    \/ \E c \in Writers, kind \in Kinds : \E key \in KeysOf(kind) :
            SetBegin(c, kind, key, FreshValue)
    \/ \E c \in Writers : SetWriteLocked(c)
    \/ \E c \in Tuners, a \in TTLArgs : SetTTLsLock(c, a)
    \/ \E c \in Tuners : SetTTLsAssign(c)
    \/ \E c \in Tuners : SetTTLsUnlock(c)

\* ======================================================================
\* SetMatchIDs / GetMatchIDs and the slices they take and return
\* ======================================================================

\* Match identifiers, as the elements of the lists.
MatchIDNames == <<"m1", "m2", "m3", "m4", "m5", "m6", "m7", "m8", "m9">>

\* The lists the calling code builds.
IDLists == {<<"m1">>, <<"m1", "m2">>}

\* The next free address.
NewArray == Cardinality(DOMAIN heap) + 1

\* Mutant of SliceCopy: no copy is made, the slice itself is used.
SliceCopy_Alias(src, fresh) == src

\* cache.go:147-148, 177-178: make([]string, len(src)) and copy(.., src):
\* the resulting slice is backed by the fresh array, not by src.
SliceCopy(src, fresh) == fresh

\* The heap after make and copy: the fresh array holds the elements of src.
CopyInto(h, src, fresh) ==
    [a \in DOMAIN h \cup {fresh} |-> IF a = fresh THEN h[src] ELSE h[a]]

InitSlices ==
    /\ heap = <<>>
    /\ owned = {}
    /\ written = <<>>

\* The calling code builds a list of match IDs of its own.
MakeList(ids) ==
    /\ NewArray <= MaxArrays
    /\ heap' = [a \in DOMAIN heap \cup {NewArray} |->
                    IF a = NewArray THEN ids ELSE heap[a]]
    /\ owned' = owned \cup {NewArray}
    /\ UNCHANGED <<written, cacheVars>>
    /\ UNCHANGED <<lobbyVars, janitorVars, playerVars, analysisVars, instanceVars>>

\* cache.go:139-153 SetMatchIDs(puuid, ids), ids being the slice at address
\* a: the clock and the TTL are read, the list is copied and the copy is
\* stored under the write lock.
SetMatchIDs(key, a) ==
    /\ a \in owned
    /\ NewArray <= MaxArrays
    /\ heap' = CopyInto(heap, a, NewArray)
    /\ store' = [store EXCEPT !["matchIDs"] =
                    Put(@, key, Item(SliceCopy(a, NewArray),
                                     ExpiresAt(now, "matchIDs"), now, ttl["matchIDs"]))]
    /\ written' = [k \in DOMAIN written \cup {key} |->
                    IF k = key THEN [ids |-> heap[a], src |-> a] ELSE written[k]]
    /\ ret' = [op |-> "setids", key |-> key, src |-> a]
    /\ UNCHANGED <<owned, now, ttl, cpc, loc, ops>>
    /\ UNCHANGED <<lobbyVars, janitorVars, playerVars, analysisVars, instanceVars>>

\* cache.go:156-180 GetMatchIDs(puuid): an absent key returns (nil, false),
\* an expired entry is deleted and (nil, false) returned, and an unexpired
\* one returns a copy of the stored list.
GetMatchIDs(key) ==
    /\ IF key \notin DOMAIN store["matchIDs"]
       THEN /\ ret' = [op |-> "getids", key |-> key, found |-> FALSE]
            /\ UNCHANGED <<heap, owned, store>>
       ELSE LET item == store["matchIDs"][key] IN
            IF After(now, item.expiresAt)
            THEN /\ store' = [store EXCEPT !["matchIDs"] = Delete(@, key)]
                 /\ ret' = [op |-> "getids", key |-> key, found |-> FALSE]
                 /\ UNCHANGED <<heap, owned>>
            ELSE /\ NewArray <= MaxArrays
                 /\ heap' = CopyInto(heap, item.value, NewArray)
                 /\ owned' = owned \cup {SliceCopy(item.value, NewArray)}
                 /\ ret' = [op |-> "getids", key |-> key, found |-> TRUE,
                            out |-> SliceCopy(item.value, NewArray),
                            list |-> heap[item.value]]
                 /\ UNCHANGED store
    /\ UNCHANGED <<written, now, ttl, cpc, loc, ops>>
    /\ UNCHANGED <<lobbyVars, janitorVars, playerVars, analysisVars, instanceVars>>

\* The calling code overwrites element i of a slice it holds.
MutateList(a, i) ==
    /\ a \in owned
    /\ i \in 1..Len(heap[a])
    /\ heap[a][i] # "changed"
    /\ heap' = [heap EXCEPT ![a][i] = "changed"]
    /\ UNCHANGED <<owned, written, cacheVars>>
    /\ UNCHANGED <<lobbyVars, janitorVars, playerVars, analysisVars, instanceVars>>

NextSlices ==
    \/ Tick
    \/ \E ids \in IDLists : MakeList(ids)
    \/ \E key \in KeysOf("matchIDs"), a \in 1..MaxArrays : SetMatchIDs(key, a)
    \/ \E key \in KeysOf("matchIDs") : GetMatchIDs(key)
    \/ \E a \in 1..MaxArrays : \E i \in 1..2 : MutateList(a, i)

\* ======================================================================
\* AnalyzePlayer
\* ======================================================================

\* Goroutines calling AnalyzePlayer on one analyzer, and the player asked for.
PlayerTasks == {"t1", "t2"}
Players == {"p1"}

\* A match record as the collaborator returns it: its identifier and the
\* PUUIDs of Info.Participants.
MatchDto(id, puuids) == [id |-> id, participants |-> puuids]

\* profiling.go:180-188: the participant records of the player, one per
\* match that has a participant with the PUUID.
PlayerData(matches, puuid) ==
    SelectSeq(matches, LAMBDA m : puuid \in m.participants)

\* profiling.go:173-194: the derived profile.  Records is the number of
\* participant records the four analyses are computed over.
NewProfile(puuid, matches, at) ==
    [PUUID |-> puuid, ProfileIconID |-> 0, AnalyzedGames |-> Len(matches),
     Records |-> Len(PlayerData(matches, puuid)), LastUpdated |-> at]

\* The locals of a call that has just started; prior is what the calls that
\* had succeeded and were not yet followed by a call of their task returned,
\* asked the identifiers whose records the call has requested of the
\* collaborator, idsErr the error of the identifier requests that yielded
\* no list (history).
NewLocals(puuid, prior) ==
    [puuid |-> puuid, kind |-> "profile", key |-> puuid, item |-> {},
     ids |-> <<>>, idsFrom |-> "none", i |-> 0, matches |-> <<>>, log |-> <<>>,
     stored |-> {}, checkAt |-> 0, prior |-> prior,
     err |-> NoValue, profile |-> {}, cached |-> FALSE, until |-> 0,
     asked |-> <<>>, idsErr |-> "nil"]

InitPlayer ==
    /\ ppc = [t \in PlayerTasks |-> "idle"]
    /\ pl = [t \in PlayerTasks |-> NewLocals("p1", {})]
    /\ calls = 0
    /\ mu = FreeLock

\* A step of AnalyzePlayer leaves the task at pc with the locals l.
Goto(pc, l) == [pc |-> pc, l |-> l]

\* return cached, nil / return nil, err / return profile, nil.
Return(l, profile, err, cached) ==
    Goto("returned", [l EXCEPT !.profile = profile, !.err = err,
                               !.cached = cached, !.item = {}])

\* The call of a cache Get for (kind, key): the task waits for the read lock.
CallGet(l, kind, key) ==
    Goto("get_read", [l EXCEPT !.kind = kind, !.key = key, !.item = {}])

\* cache.go:69-70, 106-107, 143-144: the call of a cache Set for (kind,
\* key, v): the clock and the TTL are read, then the task waits for the
\* write lock.
CallSet(l, kind, key, v) ==
    Goto("set_write", [l EXCEPT !.kind = kind, !.key = key,
                                !.item = {Item(v, ExpiresAt(now, kind), now, ttl[kind])}])

\* The entry a Get copied or a Set is about to write.
TheItem(l) == CHOOSE x \in l.item : TRUE

\* Mutant of Finish: with too few records the zero-valued profile of the
\* player is stored and returned.
Finish_CachesFallback(l) ==
    CallSet(l, "profile", l.puuid,
            IF Len(l.matches) < MinGames
            THEN NewProfile(l.puuid, <<>>, now)
            ELSE NewProfile(l.puuid, l.matches, now))

\* profiling.go:168-177, 198: after the loop, too few records fail the
\* call; otherwise the profile is derived and SetProfile is called.
Finish(l) ==
    IF Len(l.matches) < MinGames
    THEN Return(l, {}, "InsufficientValidMatches", FALSE)
    ELSE CallSet(l, "profile", l.puuid, NewProfile(l.puuid, l.matches, now))

\* profiling.go:148-154: the loop is at identifier l.i: GetMatch is called
\* for it, or the loop is over.
NextMatch(l) ==
    IF l.i <= Len(l.ids) THEN CallGet(l, "match", l.ids[l.i]) ELSE Finish(l)

\* profiling.go:165: matches = append(matches, match), and on to the next
\* identifier; how tells a cache hit from a fetched record (history).
AppendMatch(l, m, how) ==
    NextMatch([l EXCEPT !.matches = Append(@, m), !.log = Append(@, how),
                        !.i = @ + 1])

\* Mutant of SkipMatch: a failed fetch is attempted again.
SkipMatch_Retry(l) == NextMatch([l EXCEPT !.log = Append(@, "skipped")])

\* Mutant of SkipMatch: a failed fetch ends the loop.
SkipMatch_Break(l) == Finish([l EXCEPT !.log = Append(@, "skipped")])

\* profiling.go:157-159: a failed fetch: continue with the next identifier.
SkipMatch(l) ==
    NextMatch([l EXCEPT !.log = Append(@, "skipped"), !.i = @ + 1])

\* Mutant of TooFewGames: the threshold is one too low.
TooFewGames_OneLess(ids) == Len(ids) < MinGames - 1

\* profiling.go:142: len(matchIDs) < pa.MinGamesRequired.
TooFewGames(ids) == Len(ids) < MinGames

\* profiling.go:142-148: the minimum-games check, then the loop starts.
MinCheck(l) ==
    IF TooFewGames(l.ids)
    THEN Return(l, {}, "InsufficientGames", FALSE)
    ELSE NextMatch([l EXCEPT !.i = 1])

\* Mutant of NoHistory: an empty list is taken for a history.
NoHistory_Never(ids) == FALSE

\* profiling.go:134: len(matchIDs) == 0 after the regions loop.
NoHistory(ids) == Len(ids) = 0

\* What AnalyzePlayer does after a Get returned (nil, false):
\* profiling.go:110-119 GetMatchIDs follows GetProfile; 124-128 the regions
\* loop follows GetMatchIDs; 155-156 GetTFTMatchByID follows GetMatch.
AfterGetMiss(l) ==
    CASE l.kind = "profile" -> CallGet(l, "matchIDs", l.puuid)
      [] l.kind = "matchIDs" -> Goto("fetch_ids", l)
      [] OTHER -> Goto("fetch_match", [l EXCEPT !.asked = Append(@, l.key)])

\* What AnalyzePlayer does after a Get returned (v, true): profiling.go:
\* 110-112 the cached profile is returned; 119-122 the cached list is used;
\* 151-153 the cached record is used.
AfterGetHit(l, v, exp) ==
    CASE l.kind = "profile" -> Return([l EXCEPT !.until = exp], {v}, "nil", TRUE)
      [] l.kind = "matchIDs" -> MinCheck([l EXCEPT !.ids = v, !.idsFrom = "cache"])
      [] OTHER -> AppendMatch(l, v, "hit")

\* What AnalyzePlayer does after a Set returned: profiling.go:138-142,
\* 162-165, 198-201.
AfterSet(l) ==
    CASE l.kind = "profile" ->
            Return([l EXCEPT !.until = TheItem(l).expiresAt],
                   {TheItem(l).value}, "nil", FALSE)
      [] l.kind = "matchIDs" -> MinCheck(l)
      [] OTHER -> AppendMatch(l, TheItem(l).value, "fetched")

\* The profiles returned by the calls that succeeded last on their task,
\* each with the expiresAt of its cache entry (history).
TheProfile(l) == CHOOSE p \in l.profile : TRUE

Succeeded ==
    {[profile |-> TheProfile(pl[u]), until |-> pl[u].until] :
        u \in {x \in PlayerTasks : ppc[x] = "returned" /\ pl[x].err = "nil"}}

\* The task moves to where the step s leaves it.
Move(t, s) ==
    /\ ppc' = [ppc EXCEPT ![t] = s.pc]
    /\ pl' = [pl EXCEPT ![t] = s.l]

\* profiling.go:107-110: AnalyzePlayer(puuid) starts with GetProfile.
CallAnalyzePlayer(t, puuid) ==
    /\ ppc[t] \in {"idle", "returned"}
    /\ calls < MaxCalls
    /\ calls' = calls + 1
    /\ Move(t, CallGet(NewLocals(puuid, Succeeded), "profile", puuid))
    /\ UNCHANGED <<mu, cacheVars>>
    /\ UNCHANGED <<lobbyVars, janitorVars, sliceVars, analysisVars, instanceVars>>

\* cache.go:83, 120, 161: c.mu.RLock().
PlayerRLock(t) ==
    /\ ppc[t] = "get_read"
    /\ t \notin Holders(mu)
    /\ CanRLock(mu)
    /\ mu' = RLock(mu, t)
    /\ UNCHANGED <<ppc, pl, calls, cacheVars>>
    /\ UNCHANGED <<lobbyVars, janitorVars, sliceVars, analysisVars, instanceVars>>

\* cache.go:84-88, 121-125, 162-166: the entry is copied and the read lock
\* released; an absent key returns (nil, false).
PlayerGetRead(t) ==
    /\ ppc[t] = "get_read"
    /\ t \in mu.readers
    /\ mu' = RUnlock(mu, t)
    /\ LET l == [pl[t] EXCEPT !.checkAt = IF pl[t].kind = "profile" THEN now ELSE @] IN
       IF l.key \in DOMAIN store[l.kind]
       THEN Move(t, Goto("get_check", [l EXCEPT !.item = {store[l.kind][l.key]}]))
       ELSE Move(t, AfterGetMiss(l))
    /\ UNCHANGED <<calls, cacheVars>>
    /\ UNCHANGED <<lobbyVars, janitorVars, sliceVars, analysisVars, instanceVars>>

\* cache.go:90, 98, 127, 135, 168, 176-179: the copied entry is checked
\* against the clock; an unexpired one is returned.
PlayerGetCheck(t) ==
    /\ ppc[t] = "get_check"
    /\ LET l == [pl[t] EXCEPT !.checkAt = IF pl[t].kind = "profile" THEN now ELSE @] IN
       IF After(now, TheItem(l).expiresAt)
       THEN Move(t, Goto("get_delete", l))
       ELSE Move(t, AfterGetHit([l EXCEPT !.item = {}], TheItem(l).value,
                                TheItem(l).expiresAt))
    /\ UNCHANGED <<calls, mu, cacheVars>>
    /\ UNCHANGED <<lobbyVars, janitorVars, sliceVars, analysisVars, instanceVars>>

\* cache.go:72, 92, 109, 129, 150, 170: c.mu.Lock().
PlayerLock(t) ==
    /\ ppc[t] \in {"get_delete", "set_write"}
    /\ t \notin Holders(mu)
    /\ CanLock(mu)
    /\ mu' = Lock(mu, t)
    /\ UNCHANGED <<ppc, pl, calls, cacheVars>>
    /\ UNCHANGED <<lobbyVars, janitorVars, sliceVars, analysisVars, instanceVars>>

\* cache.go:93-95, 130-132, 171-173: the key is deleted, the lock released
\* and (nil, false) returned.
PlayerGetDelete(t) ==
    /\ ppc[t] = "get_delete"
    /\ t \in mu.writer
    /\ mu' = Unlock(mu, t)
    /\ store' = [store EXCEPT ![pl[t].kind] = Delete(@, pl[t].key)]
    /\ Move(t, AfterGetMiss([pl[t] EXCEPT !.item = {}]))
    /\ UNCHANGED <<calls, now, ttl, cpc, loc, ret, ops>>
    /\ UNCHANGED <<lobbyVars, janitorVars, sliceVars, analysisVars, instanceVars>>

\* cache.go:73-74, 110-111, 151-152: the entry is written and the lock
\* released.
PlayerSetWrite(t) ==
    /\ ppc[t] = "set_write"
    /\ t \in mu.writer
    /\ mu' = Unlock(mu, t)
    /\ store' = [store EXCEPT ![pl[t].kind] = Put(@, pl[t].key, TheItem(pl[t]))]
    /\ Move(t, AfterSet([pl[t] EXCEPT !.stored = @ \cup {pl[t].kind}]))
    /\ UNCHANGED <<calls, now, ttl, cpc, loc, ret, ops>>
    /\ UNCHANGED <<lobbyVars, janitorVars, sliceVars, analysisVars, instanceVars>>

\* The fetches of a call that failed, and its records that lack the player.
Skipped(l) == Len(SelectSeq(l.log, LAMBDA x : x = "skipped"))
Foreign(l) == Len(l.matches) - Len(PlayerData(l.matches, l.puuid))

\* tft.go:62-67: what a request for the identifiers returns: (nil, err)
\* when the API request fails, the list (empty or not) and nil otherwise.
RequestErrors == {"nil", "APIError"}

\* profiling.go:126-140: the regions loop has run (GetTFTMatchIDsByPUUID-
\* WithRegion for each region until one yields a non-empty list without an
\* error) and left the first k identifiers in matchIDs, none if no region
\* yielded any: then every request returned an empty list (e = "nil") or
\* an error e.  An empty matchIDs fails the call, another one is handed to
\* SetMatchIDs.
FetchIDsReturn(t, k, e) ==
    /\ ppc[t] = "fetch_ids"
    /\ e # "nil" => k = 0
    /\ LET l == [pl[t] EXCEPT !.ids = SubSeq(MatchIDNames, 1, k),
                              !.idsFrom = "fetch", !.idsErr = e] IN
       IF NoHistory(l.ids)
       THEN Move(t, Return(l, {}, "NoMatchHistory", FALSE))
       ELSE Move(t, CallSet(l, "matchIDs", l.puuid, l.ids))
    /\ UNCHANGED <<calls, mu, cacheVars>>
    /\ UNCHANGED <<lobbyVars, janitorVars, sliceVars, analysisVars, instanceVars>>

\* profiling.go:156-163: GetTFTMatchByID returns an error, and the
\* identifier is skipped, or a record, which is handed to SetMatch; the
\* record has the player among its participants or not.
FetchMatchReturn(t, outcome) ==
    /\ ppc[t] = "fetch_match"
    /\ outcome = "error" => Skipped(pl[t]) < MaxFetchErrors
    /\ outcome = "foreign" => Foreign(pl[t]) < MaxForeign
    /\ LET l == pl[t] IN
       IF outcome = "error"
       THEN Move(t, SkipMatch(l))
       ELSE Move(t, CallSet(l, "match", l.key,
                            MatchDto(l.key, IF outcome = "own"
                                            THEN {l.puuid, "other"}
                                            ELSE {"other"})))
    /\ UNCHANGED <<calls, mu, cacheVars>>
    /\ UNCHANGED <<lobbyVars, janitorVars, sliceVars, analysisVars, instanceVars>>

\* Time passes between calls: the clock unit is the shortest TTL (minutes),
\* a call in progress is over before the next unit starts.
TickBetweenCalls ==
    /\ \A t \in PlayerTasks : ppc[t] \in {"idle", "returned"}
    /\ Tick

\* One task calling AnalyzePlayer again and again, with every outcome of
\* the collaborator.
NextPlayer ==
    \/ TickBetweenCalls
    \/ \E t \in {"t1"}, p \in Players : CallAnalyzePlayer(t, p)
    \/ \E t \in {"t1"} : PlayerRLock(t)
    \/ \E t \in {"t1"} : PlayerGetRead(t)
    \/ \E t \in {"t1"} : PlayerGetCheck(t)
    \/ \E t \in {"t1"} : PlayerLock(t)
    \/ \E t \in {"t1"} : PlayerGetDelete(t)
    \/ \E t \in {"t1"} : PlayerSetWrite(t)
    \/ \E t \in {"t1"}, k \in 0..(MinGames + MaxExtraGames), e \in RequestErrors :
            FetchIDsReturn(t, k, e)
    \/ \E t \in {"t1"}, outcome \in {"error", "own", "foreign"} :
            FetchMatchReturn(t, outcome)

\* Two tasks calling AnalyzePlayer concurrently; the collaborator yields
\* identifiers, one too few at the least, and every record.
NextPlayers ==
    \/ TickBetweenCalls
    \/ \E t \in PlayerTasks, p \in Players : CallAnalyzePlayer(t, p)
    \/ \E t \in PlayerTasks : PlayerRLock(t)
    \/ \E t \in PlayerTasks : PlayerGetRead(t)
    \/ \E t \in PlayerTasks : PlayerGetCheck(t)
    \/ \E t \in PlayerTasks : PlayerLock(t)
    \/ \E t \in PlayerTasks : PlayerGetDelete(t)
    \/ \E t \in PlayerTasks : PlayerSetWrite(t)
    \/ \E t \in PlayerTasks, k \in (MinGames - 1)..(MinGames + MaxExtraGames) :
            FetchIDsReturn(t, k, "nil")
    \/ \E t \in PlayerTasks : FetchMatchReturn(t, "own")

\* ======================================================================
\* StartJanitor
\* ======================================================================

\* The StartJanitor calls, in the order they take the lock; call j makes
\* channel j, goroutine j and stop function j.
Janitors == 1..MaxJanitors

InitJanitor ==
    /\ janitorStop = 0
    /\ closes = [j \in Janitors |-> 0]
    /\ jpc = [j \in Janitors |-> "unused"]
    /\ jat = [j \in Janitors |-> 0]
    /\ tickC = [j \in Janitors |-> FALSE]
    /\ stopCalls = [j \in Janitors |-> 0]

\* close(ch) on the channel held by c.janitorStop (nothing for nil).
CloseHeld(cl, held) == IF held # 0 THEN [cl EXCEPT ![held] = @ + 1] ELSE cl

\* cache.go:223-230: under the lock, the channel of a previous janitor is
\* closed, a new channel is made and stored in c.janitorStop.
StartJanitorLock(j) ==
    /\ jpc[j] = "unused"
    /\ \A i \in Janitors : i < j => jpc[i] # "unused"
    /\ closes' = CloseHeld(closes, janitorStop)
    /\ janitorStop' = j
    /\ jpc' = [jpc EXCEPT ![j] = "created"]
    /\ ret' = [op |-> "start", janitor |-> j, closed |-> janitorStop]
    /\ UNCHANGED <<jat, tickC, stopCalls, now, ttl, store, cpc, loc, ops>>
    /\ UNCHANGED <<lobbyVars, sliceVars, playerVars, analysisVars, instanceVars>>

\* cache.go:232-245: the ticker is made, the goroutine is started and the
\* stop function is returned.
StartJanitorGo(j) ==
    /\ jpc[j] = "created"
    /\ jpc' = [jpc EXCEPT ![j] = "select"]
    /\ UNCHANGED <<janitorStop, closes, jat, tickC, stopCalls, cacheVars>>
    /\ UNCHANGED <<lobbyVars, sliceVars, playerVars, analysisVars, instanceVars>>

\* The janitors whose ticker runs: made and not yet stopped by the
\* goroutine's deferred ticker.Stop().
Ticking == {j \in Janitors : jpc[j] \in {"select", "purge", "purge_scan"}}

\* The stop functions handed out so far.
Returned == {j \in Janitors : jpc[j] \notin {"unused", "created"}}

\* time.Ticker: a tick is put in the channel of capacity 1, or dropped
\* when the channel still holds one.
TickerFire(j) ==
    /\ j \in Ticking
    /\ ~tickC[j]
    /\ tickC' = [tickC EXCEPT ![j] = TRUE]
    /\ UNCHANGED <<janitorStop, closes, jpc, jat, stopCalls, cacheVars>>
    /\ UNCHANGED <<lobbyVars, sliceVars, playerVars, analysisVars, instanceVars>>

\* cache.go:236-238: the select receives a tick; PurgeExpired is called.
\* "select" also stands for a goroutine that has not reached its select
\* yet; with both channels ready Go picks either case.
JanitorTick(j) ==
    /\ jpc[j] = "select"
    /\ tickC[j]
    /\ tickC' = [tickC EXCEPT ![j] = FALSE]
    /\ jpc' = [jpc EXCEPT ![j] = "purge"]
    /\ UNCHANGED <<janitorStop, closes, jat, stopCalls, cacheVars>>
    /\ UNCHANGED <<lobbyVars, sliceVars, playerVars, analysisVars, instanceVars>>

\* Mutant of JanitorStopped: a select that takes the stop case only when no
\* tick is waiting.
JanitorStopped_TickFirst(j) ==
    /\ jpc[j] = "select"
    /\ closes[j] > 0
    /\ ~tickC[j]
    /\ jpc' = [jpc EXCEPT ![j] = "exited"]
    /\ UNCHANGED <<janitorStop, closes, jat, tickC, stopCalls, cacheVars>>
    /\ UNCHANGED <<lobbyVars, sliceVars, playerVars, analysisVars, instanceVars>>

\* cache.go:234, 239-240: the select finds its stop channel closed; the
\* goroutine returns and the deferred ticker.Stop() runs.
JanitorStopped(j) ==
    /\ jpc[j] = "select"
    /\ closes[j] > 0
    /\ jpc' = [jpc EXCEPT ![j] = "exited"]
    /\ tickC' = [tickC EXCEPT ![j] = FALSE]
    /\ UNCHANGED <<janitorStop, closes, jat, stopCalls, cacheVars>>
    /\ UNCHANGED <<lobbyVars, sliceVars, playerVars, analysisVars, instanceVars>>

\* cache.go:184-188, called from cache.go:238: the janitor's PurgeExpired
\* reads the clock.
JanitorPurgeBegin(j) ==
    /\ jpc[j] = "purge"
    /\ jpc' = [jpc EXCEPT ![j] = "purge_scan"]
    /\ jat' = [jat EXCEPT ![j] = now]
    /\ UNCHANGED <<janitorStop, closes, tickC, stopCalls, cacheVars>>
    /\ UNCHANGED <<lobbyVars, sliceVars, playerVars, analysisVars, instanceVars>>

\* cache.go:190-209, called from cache.go:238: the scan under the lock;
\* then the loop is back at its select.
JanitorPurgeScan(j) ==
    /\ jpc[j] = "purge_scan"
    /\ store' = Purged(store, jat[j])
    /\ jpc' = [jpc EXCEPT ![j] = "select"]
    /\ UNCHANGED <<janitorStop, closes, jat, tickC, stopCalls,
                   now, ttl, cpc, loc, ret, ops>>
    /\ UNCHANGED <<lobbyVars, sliceVars, playerVars, analysisVars, instanceVars>>

\* cache.go:245-252: a returned stop function, under the lock: the channel
\* c.janitorStop holds is closed and the field is set to nil.
StopFn(j) ==
    /\ j \in Returned
    /\ stopCalls[j] < MaxStopCalls
    /\ closes' = CloseHeld(closes, janitorStop)
    /\ janitorStop' = 0
    /\ stopCalls' = [stopCalls EXCEPT ![j] = @ + 1]
    /\ ret' = [op |-> "stop", fn |-> j, call |-> stopCalls[j] + 1,
               closed |-> janitorStop]
    /\ UNCHANGED <<jpc, jat, tickC, now, ttl, store, cpc, loc, ops>>
    /\ UNCHANGED <<lobbyVars, sliceVars, playerVars, analysisVars, instanceVars>>

NextJanitor ==
    \/ \E j \in Janitors : StartJanitorLock(j)
    \/ \E j \in Janitors : StartJanitorGo(j)
    \/ \E j \in Janitors : TickerFire(j)
    \/ \E j \in Janitors : JanitorTick(j)
    \/ \E j \in Janitors : JanitorStopped(j)
    \/ \E j \in Janitors : JanitorPurgeBegin(j)
    \/ \E j \in Janitors : JanitorPurgeScan(j)
    \/ \E j \in Janitors : StopFn(j)

\* ======================================================================
\* Analyzers and the caches they own (profiling.go:91-104, cache.go:38-62)
\* ======================================================================

\* The variables the callers keep their analyzers in, and the analyzers
\* constructed so far.
AnalyzerNames == {"pa1", "pa2"}
Analyzers == DOMAIN analyzers

\* Mutant of NewCache: every call returns the one cache object of the
\* package (a singleton).
NewCache_Singleton(objects) == 1

\* cache.go:49-56: `c := &Cache{...}` is an object no earlier call returned;
\* its address.
NewCache(objects) == Cardinality(DOMAIN objects) + 1

\* cache.go:49-56, 60-62: the object NewDefaultCache returns: maps of its
\* own, the default TTLs, no janitor.
DefaultCache ==
    [ttl |-> [kind \in Kinds |-> DefaultTTL(kind)],
     store |-> [kind \in Kinds |-> <<>>],
     janitor |-> FALSE]

\* cache.go:65-75, 102-112, 139-153: Set on the cache object c at instant t.
SetOn(c, kind, key, v, t) ==
    [c EXCEPT !.store[kind] = Put(@, key, Item(v, t + c.ttl[kind], t, c.ttl[kind]))]

\* cache.go:78-99, 115-136, 156-183: Get on the cache object c at instant
\* t: the object afterwards (an expired entry is deleted) and the value
\* returned, none for (nil, false).
GetOn(c, kind, key, t) ==
    LET m == c.store[kind] IN
    IF key \notin DOMAIN m THEN [cache |-> c, value |-> {}]
    ELSE IF After(t, m[key].expiresAt)
         THEN [cache |-> [c EXCEPT !.store[kind] = Delete(@, key)], value |-> {}]
         ELSE [cache |-> c, value |-> {m[key].value}]

\* profiling.go:150-166: the loop over the identifiers; every record is
\* taken from c or fetched and stored in it.
RECURSIVE FetchAll(_, _, _, _)
FetchAll(c, ids, puuid, t) ==
    IF ids = <<>> THEN c
    ELSE LET g == GetOn(c, "match", Head(ids), t) IN
         FetchAll(IF g.value # {} THEN g.cache
                  ELSE SetOn(g.cache, "match", Head(ids),
                             MatchDto(Head(ids), {puuid}), t),
                  Tail(ids), puuid, t)

\* profiling.go:107-203: AnalyzePlayer(puuid) on an analyzer whose cache is
\* the object c, at instant t, while the collaborator answers the
\* identifier request with the list fetched: the cache object afterwards.
AnalyzePlayerOn(c, puuid, fetched, t) ==
    LET g1 == GetOn(c, "profile", puuid, t) IN
    IF g1.value # {} THEN g1.cache
    ELSE LET g2 == GetOn(g1.cache, "matchIDs", puuid, t)
             hit == g2.value # {}
             ids == IF hit THEN CHOOSE v \in g2.value : TRUE ELSE fetched
             c2 == IF hit \/ NoHistory(ids) THEN g2.cache
                   ELSE SetOn(g2.cache, "matchIDs", puuid, ids, t)
         IN  IF NoHistory(ids) \/ TooFewGames(ids) THEN c2
             ELSE SetOn(FetchAll(c2, ids, puuid, t), "profile", puuid,
                        NewProfile(puuid,
                                   [i \in 1..Len(ids) |-> MatchDto(ids[i], {puuid})],
                                   t), t)

\* The step is a call on one analyzer: it changes caches only, as given.
InstanceCall(objects) ==
    /\ ops < MaxInstanceOps
    /\ ops' = ops + 1
    /\ caches' = objects
    /\ UNCHANGED <<analyzers, now, ttl, store, cpc, loc, ret>>
    /\ UNCHANGED <<lobbyVars, janitorVars, sliceVars, playerVars, analysisVars>>

\* profiling.go:98-104: NewProfileAnalyzer: Cache is what NewDefaultCache
\* returns.
NewProfileAnalyzer(pa) ==
    /\ pa \notin Analyzers
    /\ LET c == NewCache(caches) IN
       /\ analyzers' = Put(analyzers, pa, c)
       /\ caches' = Put(caches, c, DefaultCache)
    /\ UNCHANGED cacheVars
    /\ UNCHANGED <<lobbyVars, janitorVars, sliceVars, playerVars, analysisVars>>

\* pa.AnalyzePlayer(puuid) on the analyzer a; the collaborator has k games
\* of the player.
InstanceAnalyzePlayer(a, puuid, k) ==
    InstanceCall([caches EXCEPT ![analyzers[a]] =
        AnalyzePlayerOn(@, puuid, SubSeq(MatchIDNames, 1, k), now)])

\* pa.Cache.SetProfile / SetMatch / SetMatchIDs called on the cache of the
\* analyzer a with a value of the caller.
InstanceSet(a, kind) ==
    InstanceCall([caches EXCEPT ![analyzers[a]] =
        CASE kind = "profile" -> SetOn(@, kind, "p1", NewProfile("p1", <<>>, now), now)
          [] kind = "match" -> SetOn(@, kind, "m1", MatchDto("m1", {"other"}), now)
          [] OTHER -> SetOn(@, kind, "p1", <<"m9">>, now)])

\* cache.go:273-288: pa.Cache.SetTTLs on the cache of the analyzer a.
InstanceSetTTLs(a, args) ==
    InstanceCall([caches EXCEPT ![analyzers[a]].ttl =
        [profile |-> NewTTL(@["profile"], args[1]),
         match |-> NewTTL(@["match"], args[2]),
         matchIDs |-> NewTTL(@["matchIDs"], args[3])]])

\* cache.go:186-209: pa.Cache.PurgeExpired on the cache of the analyzer a.
InstancePurgeExpired(a) ==
    InstanceCall([caches EXCEPT ![analyzers[a]].store = Purged(@, now)])

\* cache.go:213-246: pa.Cache.StartJanitor on the cache of the analyzer a:
\* from now on a goroutine purges that cache.
InstanceStartJanitor(a) ==
    InstanceCall([caches EXCEPT ![analyzers[a]].janitor = TRUE])

\* cache.go:229-241: the janitor started on the cache of the analyzer a
\* runs c.PurgeExpired() on a tick.
InstanceJanitorPurge(a) ==
    /\ caches[analyzers[a]].janitor
    /\ InstanceCall([caches EXCEPT ![analyzers[a]].store = Purged(@, now)])

\* The collaborator's history of a player: none, too short, long enough.
HistoryLengths == {0, MinGames - 1, MinGames}

NextInstances ==
    \/ \E pa \in AnalyzerNames : NewProfileAnalyzer(pa)
    \/ Tick
    \/ \E a \in Analyzers, k \in HistoryLengths : InstanceAnalyzePlayer(a, "p1", k)
    \/ \E a \in Analyzers, kind \in Kinds : InstanceSet(a, kind)
    \/ \E a \in Analyzers, args \in TTLArgs : InstanceSetTTLs(a, args)
    \/ \E a \in Analyzers : InstancePurgeExpired(a)
    \/ \E a \in Analyzers : InstanceStartJanitor(a)
    \/ \E a \in Analyzers : InstanceJanitorPurge(a)

\* ======================================================================
\* Calls of the analysis helpers
\* ======================================================================

\* The sequences over S of length lo..hi.
SeqsOf(S, lo, hi) == UNION {[1..k -> S] : k \in lo..hi}

\* A game of which only the placement matters.
Placed(p) == ParticipantDto(p, <<>>, <<>>)

\* riot_test.go:150-166: TraitDto (Name, TierCurrent) and UnitDto
\* (CharacterID, Items).
TraitDto(name, tier) == [Name |-> name, TierCurrent |-> tier]
UnitDto(id, items) == [CharacterID |-> id, Items |-> items]

\* Recent forms: every sequence of placements 1..3 up to the longest, and
\* the forms of TestDetermineClimbingTrend (part_006:161-166).
Forms ==
    SeqsOf(1..3, 0, MaxFormLen)
        \cup {<<6, 5, 4, 3, 2, 1>>, <<2, 3, 4, 5, 6, 7>>, <<4, 3, 4, 5, 4, 3>>}

\* Histories of which the placements matter: every sequence of placements
\* 1..8 up to the longest, and the one of TestAnalyzePlayStyle
\* (part_006:193).
PlacedGames ==
    {[i \in DOMAIN s |-> Placed(s[i])] :
        s \in SeqsOf(1..8, 0, MaxHelperGames) \cup {<<4, 2, 6, 3, 1>>}}

\* Games of which the boards matter: two active traits; an active and an
\* inactive trait (tier 0); a trait and a unit listed twice; an empty board.
Boards ==
    {ParticipantDto(1, <<TraitDto("Sorcerer", 1), TraitDto("Ionia", 2)>>,
                       <<UnitDto("Ahri", <<15, 44>>)>>),
     ParticipantDto(5, <<TraitDto("Ionia", 1), TraitDto("Sorcerer", 0)>>,
                       <<UnitDto("Yasuo", <<44>>), UnitDto("Ahri", <<>>)>>),
     ParticipantDto(3, <<TraitDto("Sorcerer", 1), TraitDto("Sorcerer", 1)>>,
                       <<UnitDto("Ahri", <<15>>), UnitDto("Ahri", <<15>>)>>),
     ParticipantDto(8, <<>>, <<>>)}

BoardGames == SeqsOf(Boards, 0, MaxHelperGames)

\* Histories analyzePerformance is given: a first or an eighth place in
\* every game.
PerformanceGames ==
    {[i \in DOMAIN s |-> Placed(s[i])] :
        s \in SeqsOf({1, 8}, 0, MaxPerformanceGames)}

\* Placement lists calculateConsistencyScore is given: every list of
\* placements 1..8 up to the longest, the lists of
\* TestCalculateConsistencyScore (part_006:128, 135) and three lists of
\* five, nine and ten recent games.
PlacementLists ==
    SeqsOf(1..8, 0, MaxHelperGames)
        \cup {<<4, 4, 4, 4, 4>>, <<1, 8, 2, 7, 1, 8>>, <<1, 4, 6, 1, 1>>,
              <<8, 4, 4, 1, 2, 1, 2, 2, 2>>, <<1, 8, 1, 8, 1, 8, 1, 8, 1, 8>>}

\* A helper is about to be called with an argument.
Calling(fn, args) ==
    /\ \E arg \in args : call = [fn |-> fn, arg |-> arg]
    /\ out = {}

\* The helper fn returns one of values.
Returns(fn, values) ==
    /\ call.fn = fn
    /\ out = {}
    /\ \E r \in values : out' = {r}
    /\ UNCHANGED call
    /\ UNCHANGED <<lobbyVars, cacheVars, janitorVars, sliceVars, playerVars,
                   instanceVars>>

CallDetermineClimbingTrend ==
    Returns("determineClimbingTrend",
            IF call.fn = "determineClimbingTrend"
            THEN {determineClimbingTrend(call.arg)} ELSE {})

CallAnalyzePlayStyle ==
    Returns("analyzePlayStyle",
            IF call.fn = "analyzePlayStyle"
            THEN {analyzePlayStyle(call.arg)} ELSE {})

CallAnalyzeCompPreference ==
    Returns("analyzeCompPreference",
            IF call.fn = "analyzeCompPreference"
            THEN analyzeCompPreference(call.arg) ELSE {})

CallAnalyzeItemPreference ==
    Returns("analyzeItemPreference",
            IF call.fn = "analyzeItemPreference"
            THEN analyzeItemPreference(call.arg) ELSE {})

CallAnalyzePerformance ==
    Returns("analyzePerformance",
            IF call.fn = "analyzePerformance"
            THEN {analyzePerformance(call.arg)} ELSE {})

CallCalculateConsistencyScore ==
    Returns("calculateConsistencyScore",
            IF call.fn = "calculateConsistencyScore"
            THEN calculateConsistencyScore(call.arg) ELSE {})

NextAnalysis ==
    \/ CallDetermineClimbingTrend
    \/ CallCalculateConsistencyScore
    \/ CallAnalyzePlayStyle
    \/ CallAnalyzeCompPreference
    \/ CallAnalyzeItemPreference
    \/ CallAnalyzePerformance

\* ======================================================================
\* Specifications
\* ======================================================================

\* No analysis helper is called.
InitNoCall ==
    /\ call = [fn |-> "none", arg |-> <<>>]
    /\ out = {}

\* No analyzer is constructed yet.
InitInstances ==
    /\ analyzers = <<>>
    /\ caches = <<>>

Init ==
    /\ InitLobby /\ InitCache /\ InitJanitor /\ InitSlices /\ InitPlayer
    /\ InitNoCall /\ InitInstances

\* One call of AnalyzeLobbyAggregated; the cache is left alone.
SpecLobby == Init /\ [][NextLobby]_vars

\* No lobby call is running.
InitNoLobby == Init /\ participants = <<>>

\* Concurrent clients of one cache; no lobby call, no janitor.
SpecCache == InitNoLobby /\ [][NextCache]_vars

\* A goroutine storing entries and one calling SetTTLs on one cache, with
\* the steps of SetTTLs and the lock told apart.
SpecTTLs == InitNoLobby /\ [][NextTTLs]_vars

\* StartJanitor calls, stop functions and janitor goroutines of one cache.
SpecJanitor == InitNoLobby /\ [][NextJanitor]_vars

\* One caller of SetMatchIDs and GetMatchIDs that also writes to the slices
\* it holds.
SpecSlices == InitNoLobby /\ [][NextSlices]_vars

\* AnalyzePlayer called by one task on an analyzer with a cache.
SpecPlayer == InitNoLobby /\ [][NextPlayer]_vars

\* cache.go:38-57: the cache NewCache(d, 0, 0) builds, d being one clock
\* unit: profiles live one unit, the other kinds their default.
InitShortProfileTTL ==
    /\ InitLobby /\ participants = <<>>
    /\ InitJanitor /\ InitSlices /\ InitPlayer /\ InitNoCall /\ InitInstances
    /\ now = 0
    /\ ttl = [kind \in Kinds |-> IF kind = "profile" THEN 1 ELSE DefaultTTL(kind)]
    /\ store = [kind \in Kinds |-> <<>>]
    /\ cpc = [c \in Clients |-> "idle"]
    /\ loc = [c \in Clients |-> Idle]
    /\ ret = Idle
    /\ ops = 0

\* AnalyzePlayer called by one task on an analyzer whose cache lets the
\* profiles expire first.
SpecPlayerExpiry == InitShortProfileTTL /\ [][NextPlayer]_vars

\* AnalyzePlayer called by two tasks on one analyzer with a cache.
SpecPlayers == InitNoLobby /\ [][NextPlayers]_vars

\* Analyzers constructed by NewProfileAnalyzer and the calls made on them,
\* one after another.
SpecInstances == InitNoLobby /\ [][NextInstances]_vars

\* No lobby call is running, the cache is as built, and one of the helpers
\* is about to be called.
InitAnalysis ==
    /\ InitLobby /\ participants = <<>>
    /\ InitCache /\ InitJanitor /\ InitSlices /\ InitPlayer /\ InitInstances
    /\ \/ Calling("determineClimbingTrend", Forms)
       \/ Calling("analyzePlayStyle", PlacedGames)
       \/ Calling("analyzeCompPreference", BoardGames)
       \/ Calling("analyzeItemPreference", BoardGames)
       \/ Calling("analyzePerformance", PerformanceGames)
       \/ Calling("calculateConsistencyScore", PlacementLists)

\* One call of an analysis helper, on each of the inputs.
SpecAnalysis == InitAnalysis /\ [][NextAnalysis]_vars

\* Lobbies of no participant, of one, of as many as there are slots and of
\* one more.
LobbySizes == {0, 1, ConcurrencyLimit, ConcurrencyLimit + 1}

\* A lobby call of one of these sizes is about to start.
InitLobbySizes == Init /\ n \in LobbySizes

\* AnalyzeLobbyAggregated with the goroutines step by step.  Every
\* goroutine that can take a step is scheduled at some time, and an
\* AnalyzePlayer call that was made returns: of this the specification
\* asks only that a step is taken while one can be, and that the caller,
\* the collection over, goes on to return.
SpecLobbyFair ==
    /\ InitLobbySizes
    /\ [][NextLobbySteps]_vars
    /\ WF_vars(StepsBeforeReturn)
    /\ WF_pcMain(Returning)

\* The janitor goroutines as Go schedules them: a started goroutine comes
\* to its select and a PurgeExpired call that was begun comes to its end
\* (weak fairness); a select that finds its stop channel closed again and
\* again takes that case at some time, because Go chooses among the cases
\* that can proceed by a uniform pseudo-random selection (strong fairness).
\* Tickers fire or not, StartJanitor and the stop functions are called or not.
SpecJanitorFair ==
    /\ InitNoLobby /\ [][NextJanitor]_vars
    /\ \A j \in Janitors :
          /\ WF_vars(\/ StartJanitorGo(j)
                     \/ JanitorPurgeBegin(j)
                     \/ JanitorPurgeScan(j))
          /\ SF_vars(JanitorStopped(j))

Next ==
    \/ NextLobbySteps
    \/ NextLobby \/ NextCache \/ NextTTLs \/ NextJanitor \/ NextSlices \/ NextPlayer
    \/ NextPlayers \/ NextInstances \/ NextAnalysis

Spec == Init /\ [][Next]_vars

\* ======================================================================
\* Properties
\* ======================================================================

\* The AnalyzePlayer calls that have started and not yet returned.
InFlight == Cardinality({g \in DOMAIN tasks : tasks[g].pc = "analyzing"})

\* The goroutines launched for participant i.
TasksOf(i) == {g \in DOMAIN tasks : tasks[g].arg = i}

Min(a, b) == IF a < b THEN a ELSE b

\* C1: the returned profile list has, at each index i, the profile of the
\* i-th input participant, whatever the completion order of the tasks.
C1_InputOrderPreserved ==
    pcMain = "done" =>
        /\ Len(lobby.Profiles) = n
        /\ \A i \in 1..n : lobby.Profiles[i].PUUID = participants[i].PUUID

\* C2: at most min(4, N) AnalyzePlayer calls have started and not returned.
C2_InFlightBounded == InFlight <= Min(ConcurrencyLimit, n)

\* C2 witness: a lobby above the limit with every slot in flight and the
\* dispatcher still holding participants back.
C2_AllSlotsInFlight ==
    /\ n > ConcurrencyLimit
    /\ InFlight = ConcurrencyLimit
    /\ pcMain = "dispatch" /\ idx <= n

\* C4: with N >= 1 the call returns a nil error and exactly N profiles;
\* each participant whose AnalyzePlayer failed is there once as the profile
\* with its PUUID, its icon and AnalyzedGames = 0, each other participant
\* once as the profile AnalyzePlayer derived for it.
C4_FailuresSubstituted ==
    (pcMain = "done" /\ n >= 1) =>
        /\ lobby.err = "nil"
        /\ Len(lobby.Profiles) = n
        /\ \A i \in 1..n : \E g \in TasksOf(i) :
              LET IsExpected(p) ==
                    IF tasks[g].err = "nil"
                    THEN p = tasks[g].profile
                    ELSE /\ p.PUUID = participants[i].PUUID
                         /\ p.ProfileIconID = participants[i].ProfileIconID
                         /\ p.AnalyzedGames = 0
                  found == {k \in 1..n : IsExpected(lobby.Profiles[k])}
              IN /\ Cardinality(found) = 1
                 /\ \A k \in found :
                       /\ lobby.Profiles[k].PUUID = participants[i].PUUID
                       /\ (tasks[g].err = "nil") = (lobby.Profiles[k].AnalyzedGames > 0)

\* C4 witness: a returned lobby in which one call failed and one succeeded.
C4_MixedOutcomeReturned ==
    /\ pcMain = "done"
    /\ \E g \in DOMAIN tasks : tasks[g].err = "error"
    /\ \E g \in DOMAIN tasks : tasks[g].err = "nil"

\* C5: every participant gets exactly one profiling task: the participants
\* before the loop index have one task each and the others none yet, all
\* have one once the loop is over, and a dispatcher that finds every slot
\* taken is waiting for a task that is still running (the call can always
\* take a step until it has returned: a step before the aggregation is
\* enabled, or the collection is over and the contested list, the one
\* part of the aggregate that is chosen, has an order).
C5_ExactlyOneTask ==
    /\ \A i \in 1..n : Cardinality(TasksOf(i)) = (IF i < idx THEN 1 ELSE 0)
    /\ Len(tasks) <= n
    /\ pcMain \in {"collect", "done"} => \A i \in 1..n : Cardinality(TasksOf(i)) = 1
    /\ (pcMain = "dispatch" /\ idx <= n /\ sem >= Min(ConcurrencyLimit, n)) =>
            \E g \in DOMAIN tasks : tasks[g].pc # "exited"
    /\ pcMain # "done" =>
          \/ ENABLED (\/ ReturnEmpty \/ MakeChannels \/ Dispatch \/ DispatchDone
                      \/ \E g \in 1..MaxParticipants : WorkerCall(g) \/ WorkerReturn(g)
                      \/ Collect)
          \/ /\ pcMain = "collect" /\ Len(profiles) = n
             /\ SortedByFrequency(ContestedFrequencies(profiles)) # {}

\* C5 witness: in a lobby above the limit the last participant's task runs,
\* started in a slot an earlier task released.
C5_LastTaskStartedAfterRelease ==
    /\ n > ConcurrencyLimit
    /\ Len(tasks) = n
    /\ tasks[n].pc = "analyzing"
    /\ \E g \in DOMAIN tasks : tasks[g].pc = "exited"

\* C3: no Get returns found = true for an entry whose expiresAt is strictly
\* earlier than the instant at which the Get checked it.
C3_NoExpiredHit ==
    (ret.op = "get" /\ ret.found) =>
        /\ ret.seen # {}
        /\ \A it \in ret.seen : ~(it.expiresAt < ret.at)

\* C3 witness: a Get returned an entry checked exactly at its expiry instant.
C3_HitAtExpiryInstant ==
    /\ ret.op = "get" /\ ret.found
    /\ \E it \in ret.seen : it.expiresAt = ret.at /\ it.setAt < ret.at

\* C6: a Get that reads the entry a Set stored returns found = true with
\* the Set's value when its check is no later than TTL(kind) after the Set
\* read the clock, and found = false when it is later.
C6_SetThenGet ==
    ret.op = "get" =>
        \A it \in ret.seen :
            IF ret.at <= it.setAt + it.ttlUsed
            THEN ret.found /\ ret.value = it.value
            ELSE ~ret.found

\* C6 witness: a Get found a value some time after it was set, within its
\* TTL.
C6_HitWithinTTL ==
    /\ ret.op = "get" /\ ret.found
    /\ \E it \in ret.seen : it.setAt < ret.at /\ ret.value = it.value

\* C7: the delete of a Get removes nothing but an expired entry; never an
\* unexpired one, such as one a Set wrote for the key between the Get's
\* read and its delete.
C7_GetEvictsOnlyExpired ==
    ret.op = "get" => \A e \in ret.removed : e.expiresAt < ret.removedAt

\* C8: the scan of PurgeExpired removes exactly the entries whose expiresAt
\* is earlier than the instant the call read, from all three stores, and
\* leaves every other entry as it was.
C8_PurgeExact ==
    [][\A c \in Clients :
        (cpc[c] = "purge_scan" /\ cpc'[c] # "purge_scan") =>
            \A kind \in Kinds : \A k \in Keys :
                /\ (k \in DOMAIN store'[kind]) =
                      (/\ k \in DOMAIN store[kind]
                       /\ ~(store[kind][k].expiresAt < loc[c].at))
                /\ k \in DOMAIN store'[kind] => store'[kind][k] = store[kind][k]
      ]_vars

\* C8 witness: a purge removed an expired entry and kept an unexpired one.
C8_PurgedSomeKeptSome == ret.op = "purge" /\ ret.removed >= 1 /\ ret.kept >= 1

\* C9: at no time are two sweep tasks of one cache running PurgeExpired: a
\* later StartJanitor call has stopped the earlier sweep before its own runs.
C9_OneSweepAtATime ==
    Cardinality({j \in Janitors : jpc[j] \in {"purge", "purge_scan"}}) <= 1

\* C10: a second or later call of a stop function changes nothing, and no
\* stop channel is closed twice.
C10_StopIdempotent ==
    /\ \A j \in Janitors : closes[j] <= 1
    /\ (ret.op = "stop" /\ ret.call >= 2) => ret.closed = 0

\* C11: SetTTLs leaves every stored entry, and so its expiresAt, as it was;
\* a kind whose argument is <= 0 keeps its TTL and a kind whose argument is
\* positive gets it; a Set that starts afterwards computes expiresAt from
\* the TTL in force when it starts.
C11_SetTTLsFrame ==
    [][/\ (ret'.op = "setttls" /\ ops' = ops + 1) =>
            /\ store' = store
            /\ \A kind \in Kinds :
                  ttl'[kind] = IF ret'.args[kind] <= 0 THEN ttl[kind]
                                                      ELSE ret'.args[kind]
       /\ \A c \in Writers :
            (cpc[c] = "idle" /\ cpc'[c] = "set_write") =>
                loc'[c].item.expiresAt = now + ttl[loc'[c].kind]
      ]_vars

\* C11 witness: SetTTLs has just changed the TTL of a kind that holds an
\* entry stored under the former TTL, whose expiresAt is still the one its
\* Set computed.
C11_EntryKeepsOldExpiry ==
    /\ ret.op = "setttls"
    /\ \E kind \in Kinds :
        /\ ret.args[kind] > 0 /\ ret.before[kind] # ttl[kind]
        /\ \E k \in DOMAIN store[kind] :
              /\ store[kind][k].ttlUsed = ret.before[kind]
              /\ store[kind][k].expiresAt = store[kind][k].setAt + ret.before[kind]

\* C12: the write of a Set leaves the key with exactly the entry (value,
\* now + TTL(kind)) of that Set, whatever entry the key had before, and
\* leaves every other key and store alone.
C12_SetReplaces ==
    [][\A c \in Writers :
        (cpc[c] = "set_write" /\ cpc'[c] = "idle") =>
            LET kind == loc[c].kind
                key == loc[c].key
            IN /\ DOMAIN store'[kind] = DOMAIN store[kind] \cup {key}
               /\ store'[kind][key].value = loc[c].item.value
               /\ store'[kind][key].expiresAt =
                      loc[c].item.setAt + loc[c].item.ttlUsed
               /\ \A k \in DOMAIN store[kind] \ {key} :
                      store'[kind][k] = store[kind][k]
               /\ \A other \in Kinds \ {kind} : store'[other] = store[other]
      ]_vars

\* C12 witness: a Set has replaced an entry that had expired, and the key
\* holds the new value with the new expiresAt.
C12_ReplacedExpiredEntry ==
    /\ ret.op = "set"
    /\ \E e \in ret.replaced :
          /\ e.expiresAt < ret.item.setAt
          /\ e.value # ret.item.value
    /\ store[ret.kind][ret.key].value = ret.item.value
    /\ store[ret.kind][ret.key].expiresAt = ret.item.expiresAt

\* C13: the list cached for a key is the list its last SetMatchIDs was
\* given, as it was at that call, whatever the calling code has since
\* written to the slice it passed or to a slice GetMatchIDs returned; and
\* that list is what GetMatchIDs returns.
C13_CachedListUnchanged ==
    /\ \A k \in DOMAIN store["matchIDs"] :
          heap[store["matchIDs"][k].value] = written[k].ids
    /\ (ret.op = "getids" /\ ret.found) => ret.list = written[ret.key].ids

\* C13 witness: the calling code has changed both the slice it passed to
\* SetMatchIDs and a slice an earlier GetMatchIDs returned, and GetMatchIDs
\* has just returned the list as it was set.
C13_GetAfterMutations ==
    /\ ret.op = "getids" /\ ret.found
    /\ heap[written[ret.key].src] # written[ret.key].ids
    /\ \E a \in owned \ {written[ret.key].src, ret.out} :
          /\ Len(heap[a]) = Len(ret.list)
          /\ heap[a] # ret.list
    /\ ret.list = written[ret.key].ids

\* The collaborator calls for match records a call has made so far.
MatchCalls(l) == Len(SelectSeq(l.log, LAMBDA x : x # "hit"))

\* The calls that have returned.
ReturnedCalls == {pl[t] : t \in {x \in PlayerTasks : ppc[x] = "returned"}}

\* C14: a task inside a call to the match-history collaborator (for the
\* identifiers or for a record) holds the cache lock neither for reading
\* nor for writing, and another task that waits for the lock can take it.
C14_NoLockAcrossFetch ==
    \A t \in PlayerTasks :
        ppc[t] \in {"fetch_ids", "fetch_match"} =>
            /\ t \notin Holders(mu)
            /\ \A u \in PlayerTasks \ {t} :
                  /\ (ppc[u] = "get_read" /\ u \notin Holders(mu)) =>
                        ENABLED PlayerRLock(u)
                  /\ (ppc[u] \in {"get_delete", "set_write"} /\ u \notin Holders(mu)) =>
                        ENABLED PlayerLock(u)

\* C14 witness: while one task is inside a fetch, the other holds the
\* write lock for a cache operation of its own.
C14_CacheWriteDuringFetch ==
    \E t \in PlayerTasks, u \in PlayerTasks :
        /\ t # u
        /\ ppc[t] \in {"fetch_ids", "fetch_match"}
        /\ u \in mu.writer

\* C15: a call started after a call for the same player had succeeded, and
\* whose profile lookup falls before that profile's cache entry expires,
\* returns that profile and calls the collaborator neither for identifiers
\* nor for records.
C15_CachedProfileReused ==
    \A l \in ReturnedCalls : \A pr \in l.prior :
        (pr.profile.PUUID = l.puuid /\ l.checkAt <= pr.until) =>
            /\ l.err = "nil"
            /\ l.profile = {pr.profile}
            /\ l.idsFrom # "fetch"
            /\ MatchCalls(l) = 0

\* C16: a call that obtained a non-empty identifier list (cached or
\* fetched) shorter than the minimum fails with InsufficientGames, has
\* asked for no match record and returns no profile.
C16_InsufficientGames ==
    \A l \in ReturnedCalls :
        (l.idsFrom # "none" /\ Len(l.ids) > 0 /\ Len(l.ids) < MinGames) =>
            /\ l.err = "InsufficientGames"
            /\ l.log = <<>> /\ l.matches = <<>>
            /\ l.profile = {}
            /\ "profile" \notin l.stored /\ "match" \notin l.stored

\* C16 witness: a call failed with InsufficientGames on a list it found in
\* the cache.
C16_ShortCachedList ==
    \E l \in ReturnedCalls :
        /\ l.err = "InsufficientGames"
        /\ l.idsFrom = "cache"
        /\ Len(l.ids) > 0

\* C17: a call that reaches the record loop handles every identifier, a
\* failed fetch being skipped; it fails with InsufficientValidMatches
\* exactly when the records obtained (cache hits plus successful fetches)
\* are fewer than the minimum, and succeeds otherwise.
C17_SkipsFailedFetches ==
    \A l \in ReturnedCalls :
        (l.idsFrom # "none" /\ Len(l.ids) >= MinGames) =>
            LET obtained == Len(SelectSeq(l.log, LAMBDA x : x # "skipped")) IN
            /\ Len(l.log) = Len(l.ids)
            /\ Len(l.matches) = obtained
            /\ (l.err = "InsufficientValidMatches") = (obtained < MinGames)
            /\ (l.err = "nil") = (obtained >= MinGames)
            /\ (l.err = "nil") = (l.profile # {})

\* C17 witness: a call succeeded although a fetch failed, with a record
\* fetched after the failure and a record found in the cache.
C17_SucceededAfterSkip ==
    \E l \in ReturnedCalls :
        /\ l.err = "nil" /\ ~l.cached
        /\ \E i \in DOMAIN l.log, j \in DOMAIN l.log :
              i < j /\ l.log[i] = "skipped" /\ l.log[j] = "fetched"
        /\ \E i \in DOMAIN l.log : l.log[i] = "hit"

\* C18: a call that found no cached identifier list and to which the
\* collaborator yielded no identifier fails with NoMatchHistory, has asked
\* for no match record and has stored neither a list nor a profile.
C18_NoMatchHistory ==
    \A l \in ReturnedCalls :
        (l.idsFrom = "fetch" /\ l.ids = <<>>) =>
            /\ l.err = "NoMatchHistory"
            /\ l.log = <<>> /\ l.matches = <<>>
            /\ l.stored = {}
            /\ l.profile = {}

\* C18 witness: a call failed with NoMatchHistory and the player has no
\* entry in the match-ID store and none in the profile store.
C18_FailedWithNothingStored ==
    \E l \in ReturnedCalls :
        /\ l.err = "NoMatchHistory"
        /\ l.puuid \notin DOMAIN store["matchIDs"]
        /\ l.puuid \notin DOMAIN store["profile"]

\* C19: every profile a successful call returns has AnalyzedGames of at
\* least the minimum and equal to the number of the player's participant
\* records the analyses were computed over, also when a record used has no
\* participant with the player's identifier.
C19_AnalyzedGamesIsRecordCount ==
    \A l \in ReturnedCalls :
        l.err = "nil" =>
            \A p \in l.profile :
                /\ p.AnalyzedGames >= MinGames
                /\ p.AnalyzedGames = p.Records

\* C20: with zero participants the call returns a lobby with an empty
\* profile list and a nil error; it starts no task, takes no semaphore
\* slot, and no AnalyzePlayer call, cache operation or collaborator call is
\* made.
C20_EmptyLobby ==
    n = 0 =>
        /\ tasks = <<>> /\ sem = 0 /\ results = <<>>
        /\ calls = 0 /\ ops = 0
        /\ \A kind \in Kinds : DOMAIN store[kind] = {}
        /\ pcMain \in {"start", "done"}
        /\ pcMain = "done" =>
              /\ lobby.err = "nil"
              /\ lobby.Profiles = <<>>

\* C20 witness: the call on a game without participants has returned.
C20_EmptyLobbyReturned ==
    /\ n = 0
    /\ pcMain = "done"
    /\ Len(lobby.Profiles) = 0

RECURSIVE FloatSum(_)
\* The float64 sum of a list of values, added from the first to the last.
FloatSum(xs) ==
    IF xs = <<>> THEN F64Zero
    ELSE F64Add(FloatSum(SubSeq(xs, 1, Len(xs) - 1)), xs[Len(xs)])

\* The float64 mean of a list of values; 0.0 for the empty list.
FloatMean(xs) ==
    IF xs = <<>> THEN F64Zero ELSE F64DivInt(FloatSum(xs), Len(xs))

\* The profiles of a list that have data, in the order of the list.
WithData(ps) == SelectSeq(ps, LAMBDA p : p.AnalyzedGames > 0)

\* C21: the lobby's average placement and top-4 rate are the means of the
\* per-player values over exactly the returned profiles with
\* AnalyzedGames > 0: a profile with AnalyzedGames = 0 adds to neither the
\* sum nor the count, and both averages are 0 when no profile has data.
C21_AveragesOverProfilesWithData ==
    (pcMain = "done" /\ n > 0) =>
        LET used == WithData(lobby.Profiles)
        IN /\ lobby.AvgPlacement =
                FloatMean([i \in DOMAIN used |-> used[i].PlayStyle.AveragePlacement])
           /\ lobby.TopFourRate =
                FloatMean([i \in DOMAIN used |-> used[i].PlayStyle.TopFourRate])
           /\ used = <<>> =>
                lobby.AvgPlacement = F64Zero /\ lobby.TopFourRate = F64Zero

\* C21 witness: a lobby was returned in which two profiles have data and
\* one has none, with a lobby average that is not zero.
C21_AveragedWithFallbackPresent ==
    /\ pcMain = "done"
    /\ Len(WithData(lobby.Profiles)) >= 2
    /\ \E i \in DOMAIN lobby.Profiles : lobby.Profiles[i].AnalyzedGames = 0
    /\ lobby.AvgPlacement # F64Zero

\* The names of the first min(3, k) favorite traits of a profile.
TopThree(p) ==
    {p.CompPreference.FavoriteTraits[j].Name :
        j \in 1..Min(3, Len(p.CompPreference.FavoriteTraits))}

\* The number of the returned profiles that have the trait in their top 3.
Preferring(name) ==
    Cardinality({i \in DOMAIN lobby.Profiles : name \in TopThree(lobby.Profiles[i])})

\* C22: the contested list has exactly one entry for every trait that is
\* among the first min(3, k) favorite traits of some returned profile and
\* none for any other; the entry's fraction is the number of profiles
\* preferring the trait divided by N, lies in (0, 1], and the list is in
\* non-increasing order of fraction.
C22_ContestedTraits ==
    (pcMain = "done" /\ n > 0) =>
        LET ct    == lobby.ContestedTraits
            names == UNION {TopThree(lobby.Profiles[i]) : i \in DOMAIN lobby.Profiles}
        IN /\ {ct[i].Name : i \in DOMAIN ct} = names
           /\ \A i, j \in DOMAIN ct : ct[i].Name = ct[j].Name => i = j
           /\ \A i \in DOMAIN ct :
                /\ ct[i].Frequency = F64FromRatio(Preferring(ct[i].Name), n)
                /\ F64Less(F64Zero, ct[i].Frequency)
                /\ ~F64Less(F64FromInt(1), ct[i].Frequency)
           /\ \A i \in 1..(Len(ct) - 1) :
                ~F64Less(ct[i].Frequency, ct[i + 1].Frequency)

\* C22 witness: a lobby was returned with a profile that has more than
\* three favorite traits and a profile without data, and its contested
\* list has entries of different and entries of equal fraction.
C22_ContestedWithTies ==
    /\ pcMain = "done"
    /\ \E i \in DOMAIN lobby.Profiles :
          Len(lobby.Profiles[i].CompPreference.FavoriteTraits) > 3
    /\ \E i \in DOMAIN lobby.Profiles : lobby.Profiles[i].AnalyzedGames = 0
    /\ \E i, j \in DOMAIN lobby.ContestedTraits :
          F64Less(lobby.ContestedTraits[j].Frequency, lobby.ContestedTraits[i].Frequency)
    /\ \E i, j \in DOMAIN lobby.ContestedTraits :
          i # j /\ lobby.ContestedTraits[i].Frequency = lobby.ContestedTraits[j].Frequency

\* The returned profiles in the order of the participants they belong to.
InParticipantOrder(ps) ==
    [i \in 1..n |->
        ps[CHOOSE k \in DOMAIN ps : ps[k].PUUID = participants[i].PUUID]]

\* C23: the lobby averages and the set of (trait, fraction) pairs do not
\* depend on the order in which the profiles were delivered: they are
\* those of the same profiles delivered in the order of the participants.
C23_OrderIndependent ==
    (pcMain = "done" /\ n > 0) =>
        \A other \in Aggregated(InParticipantOrder(lobby.Profiles)) :
            /\ lobby.AvgPlacement = other.AvgPlacement
            /\ lobby.TopFourRate = other.TopFourRate
            /\ {lobby.ContestedTraits[i] : i \in DOMAIN lobby.ContestedTraits}
                 = {other.ContestedTraits[i] : i \in DOMAIN other.ContestedTraits}

\* No identifier occurs twice in the list.
NoDuplicates(s) == \A i, j \in DOMAIN s : s[i] = s[j] => i = j

\* C24: AnalyzePlayer never retries: within one call the record of every
\* match identifier is requested of the collaborator at most once (so a
\* failed fetch is not attempted again), only identifiers of the call's
\* list are requested, a call that failed with NoMatchHistory or
\* InsufficientGames has requested no record, and a call that has returned
\* makes no further request.
C24_NoRetry ==
    /\ [](\A t \in PlayerTasks :
            /\ NoDuplicates(pl[t].asked)
            /\ \A i \in DOMAIN pl[t].asked :
                  \E j \in DOMAIN pl[t].ids : pl[t].ids[j] = pl[t].asked[i]
            /\ ppc[t] = "returned" => Len(pl[t].asked) = MatchCalls(pl[t])
            /\ (ppc[t] = "returned"
                  /\ pl[t].err \in {"NoMatchHistory", "InsufficientGames"})
                  => pl[t].asked = <<>>)
    /\ [][\A t \in PlayerTasks :
            ppc[t] = "returned" =>
                \/ ppc'[t] = "returned" /\ pl'[t] = pl[t]
                \/ ppc'[t] = "get_read" /\ pl'[t].asked = <<>>]_vars

\* C24 witness: a call failed with InsufficientValidMatches after two of
\* its fetches had failed, and has requested each of its identifiers once.
C24_FailedAfterFailedFetches ==
    \E l \in ReturnedCalls :
        /\ l.err = "InsufficientValidMatches"
        /\ Skipped(l) = 2
        /\ l.asked = l.ids

\* C25: a call whose identifier request failed with an error of the
\* collaborator fails with that error, not with NoMatchHistory.
C25_CollaboratorErrorPassedThrough ==
    \A l \in ReturnedCalls :
        (l.idsFrom = "fetch" /\ l.idsErr # "nil") =>
            /\ l.err = l.idsErr
            /\ l.err # "NoMatchHistory"

\* What the callers of the cache of the analyzer b can observe at the
\* present instant: the value every Get returns (the live entries) and the
\* TTLs.
Observed(b) ==
    LET c == caches[analyzers[b]] IN
    [gets |-> [kind \in Kinds |->
                [k \in {x \in DOMAIN c.store[kind] :
                            ~After(now, c.store[kind][x].expiresAt)} |->
                    c.store[kind][k].value]],
     ttl |-> c.ttl]

\* The step is a call on the analyzer a or its cache.
OperationOn(a) ==
    \/ \E k \in HistoryLengths : InstanceAnalyzePlayer(a, "p1", k)
    \/ \E kind \in Kinds : InstanceSet(a, kind)
    \/ \E args \in TTLArgs : InstanceSetTTLs(a, args)
    \/ InstancePurgeExpired(a)
    \/ InstanceStartJanitor(a)
    \/ InstanceJanitorPurge(a)

\* C26: cache state is per analyzer instance: a call of AnalyzePlayer, Set,
\* SetTTLs, PurgeExpired or StartJanitor (with the purges of the janitor it
\* starts) on one analyzer made by NewProfileAnalyzer changes neither what
\* a Get on another analyzer's cache returns nor that cache's TTLs: a step
\* that changes what is observed of the analyzer b is no call on another
\* analyzer.
C26_CachePerAnalyzer ==
    [][\A b \in Analyzers :
          Observed(b)' # Observed(b) =>
              \A a \in Analyzers \ {b} : ~OperationOn(a)]_vars

\* C26 witness: two analyzers exist; calls on the first have filled its
\* cache and changed its TTLs while the second one's cache is as built.
C26_OneFilledOneUntouched ==
    /\ Analyzers = AnalyzerNames
    /\ caches[analyzers["pa1"]].store["profile"] # <<>>
    /\ caches[analyzers["pa1"]].ttl # DefaultCache.ttl
    /\ caches[analyzers["pa2"]] = DefaultCache

\* A helper has returned r on the argument x.
HasReturned(fn) == call.fn = fn /\ out # {}
Result == CHOOSE r \in out : TRUE

\* The trend a recent form of five or more entries is meant to have, in
\* exact arithmetic: with the sums s1, s2 and the lengths n1, n2 of the
\* halves, s2/n2 <= s1/n1 - 1/2 is 2*s2*n1 <= 2*s1*n2 - n1*n2.
TrendWithBoundary(form) ==
    LET mid == Len(form) \div 2
        n1 == mid
        n2 == Len(form) - mid
        s1 == SumSeq(SubSeq(form, 1, mid))
        s2 == SumSeq(SubSeq(form, mid + 1, Len(form)))
    IN IF 2 * s2 * n1 <= 2 * s1 * n2 - n1 * n2 THEN "climbing"
       ELSE IF 2 * s2 * n1 >= 2 * s1 * n2 + n1 * n2 THEN "declining"
       ELSE "stable"

\* C27: determineClimbingTrend returns "unknown" for a form shorter than 5;
\* for a longer one, split at floor(len/2), "climbing" when the second-half
\* mean is at least 0.5 lower than the first-half mean (exactly 0.5
\* included), "declining" when it is at least 0.5 higher (exactly 0.5
\* included), "stable" otherwise.
C27_TrendBoundaryIncluded ==
    HasReturned("determineClimbingTrend") =>
        Result = IF Len(call.arg) < 5 THEN "unknown"
                 ELSE TrendWithBoundary(call.arg)

\* x is a float64 nearest to p/q (q > 0): 0 for p = 0, and otherwise a
\* normalised value m * 2^(e-52) no further from p/q than half a unit of
\* its last place: |2*q*m - p*2^(53-e)| <= q.
IsQuotient(x, p, q) ==
    IF p = 0 THEN x = F64Zero
    ELSE /\ BitLen(x.m) = MantissaBits
         /\ LET A == BigMul(x.m, 2 * q)
                B == ShiftLeft(Big(p), MantissaBits - x.e)
            IN ~BigLess(Big(q), IF BigLess(A, B) THEN BigSub(B, A)
                                ELSE BigSub(A, B))

\* C28: for a non-empty list of game records analyzePlayStyle returns
\* AveragePlacement = (sum of placements) / (number of games) and
\* TopFourRate = (number of games with placement <= 4) / (number of
\* games), as float64 values; for an empty list both are 0.
C28_PlayStyleAverages ==
    HasReturned("analyzePlayStyle") =>
        LET games == call.arg
            g == Len(games)
            sum == SumSeq(Placements(games))
            top == Cardinality({i \in DOMAIN games : games[i].Placement <= 4})
        IN IF g = 0
           THEN Result.AveragePlacement = F64Zero /\ Result.TopFourRate = F64Zero
           ELSE /\ IsQuotient(Result.AveragePlacement, sum, g)
                /\ IsQuotient(Result.TopFourRate, top, g)

\* C28 witness: the history with the placements 4, 2, 6, 3, 1 has returned
\* the averages 3.2 and 0.8.
C28_ExampleHistory ==
    /\ HasReturned("analyzePlayStyle")
    /\ Placements(call.arg) = <<4, 2, 6, 3, 1>>
    /\ Result.AveragePlacement = F64FromRatio(32, 10)
    /\ Result.TopFourRate = F64FromRatio(8, 10)

\* The first place of the sequence s that holds x.
FirstPlace(s, x) == CHOOSE i \in DOMAIN s : s[i] = x /\ \A j \in 1..(i - 1) : s[j] # x

\* The entries, given by their names and frequencies, are in non-increasing
\* order of frequency, those of equal frequency in the order in which the
\* names first occur in counted.
StableOrder(names, freqs, counted) ==
    \A i, j \in DOMAIN names :
        i < j =>
            \/ F64Less(freqs[j], freqs[i])
            \/ /\ freqs[i] = freqs[j]
               /\ FirstPlace(counted, names[i]) < FirstPlace(counted, names[j])

\* C29: FavoriteTraits, FavoriteUnits and FavoriteItems are each in
\* non-increasing order of frequency, entries of equal frequency in the
\* order in which they first occur in the input games.
C29_TiesInInputOrder ==
    /\ HasReturned("analyzeCompPreference") =>
          /\ LET l == Result.FavoriteTraits IN
             StableOrder([i \in DOMAIN l |-> l[i].Name],
                         [i \in DOMAIN l |-> l[i].Frequency],
                         CountedTraits(call.arg))
          /\ LET l == Result.FavoriteUnits IN
             StableOrder([i \in DOMAIN l |-> l[i].CharacterID],
                         [i \in DOMAIN l |-> l[i].Frequency],
                         CountedUnits(call.arg))
    /\ HasReturned("analyzeItemPreference") =>
          LET l == Result.FavoriteItems IN
          StableOrder([i \in DOMAIN l |-> l[i].ItemID],
                      [i \in DOMAIN l |-> l[i].Frequency],
                      CountedItems(call.arg))

\* The k most recent games of a history: the match identifier list, and
\* playerData with it, starts with the most recent game (part_013:569-582
\* takes matchIDs[0] for the last game played).
MostRecent(playerData, k) == SubSeq(playerData, 1, k)

\* C30: RecentForm has min(10, g) entries for g game records; they are the
\* placements of the most recent of those games, in the order of the match
\* identifier list.
C30_RecentFormIsMostRecent ==
    HasReturned("analyzePerformance") =>
        LET g == Len(call.arg) IN
        /\ Len(Result.RecentForm) = Min(10, g)
        /\ Result.RecentForm = Placements(MostRecent(call.arg, Min(10, g)))

\* The number of games of playerData in which a listed trait of that name
\* is active, and in which a unit of that character is fielded.
GamesWithTrait(playerData, name) ==
    Cardinality({g \in DOMAIN playerData :
        \E i \in DOMAIN playerData[g].Traits :
            /\ playerData[g].Traits[i].Name = name
            /\ playerData[g].Traits[i].TierCurrent > 0})

GamesWithUnit(playerData, id) ==
    Cardinality({g \in DOMAIN playerData :
        \E i \in DOMAIN playerData[g].Units :
            playerData[g].Units[i].CharacterID = id})

\* The float64 x is at most 1.
AtMostOne(x) == ~F64Less(F64FromInt(1), x)

\* C31: each returned trait frequency is (games in which the trait has
\* tier > 0) / (games used) and each unit frequency is (games in which the
\* unit appears) / (games used), a trait or unit listed more than once in a
\* game counting once for that game; every frequency is above 0 and at
\* most 1.
C31_FrequencyPerGame ==
    HasReturned("analyzeCompPreference") =>
        LET games == call.arg
            ft == Result.FavoriteTraits
            fu == Result.FavoriteUnits
        IN /\ \A i \in DOMAIN ft :
                /\ IsQuotient(ft[i].Frequency,
                              GamesWithTrait(games, ft[i].Name), Len(games))
                /\ F64Less(F64Zero, ft[i].Frequency)
                /\ AtMostOne(ft[i].Frequency)
           /\ \A i \in DOMAIN fu :
                /\ IsQuotient(fu[i].Frequency,
                              GamesWithUnit(games, fu[i].CharacterID), Len(games))
                /\ F64Less(F64Zero, fu[i].Frequency)
                /\ AtMostOne(fu[i].Frequency)

\* The population variance of the placements s is SpreadOf(s) / Len(s)^2:
\* with the sum S and the sum of squares Q of the n placements,
\* Q/n - (S/n)^2 = (n*Q - S^2) / n^2.
SpreadOf(s) ==
    Len(s) * SumSeq([i \in DOMAIN s |-> s[i] * s[i]]) - SumSeq(s) * SumSeq(s)

\* The variance of s is larger than the variance of t.
LargerVariance(s, t) ==
    SpreadOf(s) * Len(t) * Len(t) > SpreadOf(t) * Len(s) * Len(s)

\* The float64 x > 0 is p/q up to the rounding of the operations: no
\* further from it than eight units of the last place of x,
\* |q*m - p*2^(52-e)| <= 8*q for x = m * 2^(e-52).
IsNearQuotient(x, p, q) ==
    /\ BitLen(x.m) = MantissaBits
    /\ LET A == BigMul(x.m, q)
           B == ShiftLeft(Big(p), (MantissaBits - 1) - x.e)
       IN ~BigLess(Big(8 * q), IF BigLess(A, B) THEN BigSub(B, A)
                               ELSE BigSub(A, B))

\* Lists the score of a call is compared with, and their scores.
ReferenceLists ==
    <<<<4, 4, 4, 4, 4>>, <<1, 2>>, <<3, 5, 4>>, <<1, 8, 2, 7, 1, 8>>,
      <<1, 8>>, <<2, 2, 7>>>>
RECURSIVE ScoresOf(_)
ScoresOf(lists) ==
    IF lists = <<>> THEN <<>>
    ELSE <<calculateConsistencyScore(Head(lists))>> \o ScoresOf(Tail(lists))
ReferenceScores == ScoresOf(ReferenceLists)

LobbyCallOver ==
    /\ pcMain = "done"
    /\ sem = 0
    /\ Len(tasks) = n
    /\ \A g \in DOMAIN tasks : tasks[g].pc = "exited"

\* C33: when every AnalyzePlayer call returns, AnalyzeLobbyAggregated
\* returns, for every number of participants, and every goroutine gets to
\* its end: the dispatcher does not wait for a slot for ever, no worker
\* waits for ever to deliver its result, and every worker releases its
\* slot, also one that is still running when the call returns.
C33_LobbyTerminates == <>[]LobbyCallOver

\* C33 witness: the call has returned for a lobby of more participants than
\* slots while a worker has delivered its result and has yet to release
\* its slot.
C33_ReturnedBeforeLastRelease ==
    /\ pcMain = "done"
    /\ n > ConcurrencyLimit
    /\ \E g \in DOMAIN tasks : tasks[g].pc = "releasing"

\* C34: a stop function stops only the sweep of the StartJanitor call that
\* returned it: the channel a call of stop function j closes, if any, is
\* channel j, so that after a second StartJanitor the first stop function
\* leaves the second sweep running.
C34_StopsOnlyOwnSweep ==
    ret.op = "stop" => ret.closed \in {0, ret.fn}

\* C35: once the stop channel of a sweep is closed, by a stop function or
\* by a later StartJanitor call, its goroutine comes to its end, and so
\* runs PurgeExpired only finitely many more times, also while its ticker
\* keeps firing.  A closed channel stays closed and a goroutine that is
\* over stays over; so the property is that from some time on every sweep
\* whose channel is closed is over.
C35_SignalledSweepEnds ==
    /\ [][\A j \in Janitors :
             /\ closes[j] > 0 => closes'[j] > 0
             /\ jpc[j] = "exited" => jpc'[j] = "exited"]_vars
    /\ <>[](\A j \in Janitors : closes[j] > 0 => jpc[j] = "exited")

\* C35 witness: the sweep of the first StartJanitor call, its channel
\* closed by the second call, is over while the second sweep is running
\* PurgeExpired.
C35_FirstSweepOver ==
    /\ closes[1] > 0
    /\ jpc[1] = "exited"
    /\ janitorStop = 2
    /\ jpc[2] \in {"purge", "purge_scan"}

\* ---------------------------------------------------------------- C36 --
\* The step in which a Set reads the TTL of its kind (cache.go:70, 107,
\* 148: exp := now.Add(c.profileTTL), ...).
ReadsTTL(c) == cpc[c] = "idle" /\ cpc'[c] = "set_write"

\* C36: every read and write of the cache's shared fields happens under
\* the lock in a mode that excludes concurrent writers; in particular, as
\* stated here, no Set reads a TTL field while a SetTTLs call holds the
\* write lock and is assigning the fields.
C36_TTLReadExcludesWriter ==
    [][\A c \in Writers : ReadsTTL(c) => mu.writer = {}]_vars

\* ---------------------------------------------------------------- C37 --
\* The store of a kind holds an entry for the key that has not expired.
Unexpired(kind, key) ==
    /\ key \in DOMAIN store[kind]
    /\ ~After(now, store[kind][key].expiresAt)

\* The step in which task t calls GetTFTMatchByID (profiling.go:156) and is
\* answered.
RequestsMatch(t) == ppc[t] = "fetch_match" /\ ppc'[t] # "fetch_match"

\* C37: while the cache entry of a match record is unexpired, no task of
\* the analyzer asks the collaborator for that match, whichever tasks run
\* concurrently: the one request that produced the entry is the only one.
C37_NoRequestWhileCached ==
    [][\A t \in PlayerTasks :
          RequestsMatch(t) => ~Unexpired("match", pl[t].key)]_vars

Written(before, after) ==
    {k \in DOMAIN after : k \notin DOMAIN before \/ after[k] # before[k]}

RequestsIDs(t) == ppc[t] # "fetch_ids" /\ ppc'[t] = "fetch_ids"

\* The step in which the call of task t returns.
CallReturns(t) == ppc[t] # "returned" /\ ppc'[t] = "returned"

\* The step in which the GetMatchIDs of task t returns a list
\* (profiling.go:119-122).
TakesCachedIDs(t) == pl[t].idsFrom # "cache" /\ pl'[t].idsFrom = "cache"

\* C39, of calls made one after another: a call that fetched a non-empty
\* identifier list has stored it, whether it then failed the minimum-games
\* check, obtained too few records or succeeded, and when it returns the
\* match-ID store holds that list unexpired; as long as the store holds an
\* unexpired list of the player no call asks the collaborator for
\* identifiers, and a call that finds the list works from the stored one.
C39_SequentialCallsUseCachedList ==
    [][\A t \in PlayerTasks :
            /\ (CallReturns(t) /\ pl'[t].idsFrom = "fetch" /\ pl'[t].ids # <<>>) =>
                  /\ "matchIDs" \in pl'[t].stored
                  /\ Unexpired("matchIDs", pl[t].puuid)'
                  /\ store'["matchIDs"][pl[t].puuid].value = pl'[t].ids
            /\ RequestsIDs(t) => ~Unexpired("matchIDs", pl[t].puuid)
            /\ TakesCachedIDs(t) =>
                  /\ Unexpired("matchIDs", pl[t].puuid)
                  /\ pl'[t].ids = store["matchIDs"][pl[t].puuid].value]_vars

\* C39: once a call that fetched a non-empty identifier list has returned
\* (failed or not), the match-ID store holds an unexpired list of the
\* player for as long as the TTL of the fetched list has not elapsed, so
\* that the next call, whenever it comes within the TTL, finds the list
\* and makes no identifier request.  checkAt, the instant of the call's
\* profile lookup, is not later than the instant it stored the list.
C39_CachedListAwaitsNextCall ==
    \A l \in ReturnedCalls :
        (l.idsFrom = "fetch" /\ l.ids # <<>>
         /\ "matchIDs" \in l.stored
         /\ now <= l.checkAt + ttl["matchIDs"]) =>
            Unexpired("matchIDs", l.puuid)
====
